---- MODULE Spec2Model ----
(***************************************************************************)
(* ContextOptimizer backend: the session lifecycle driven by the API       *)
(* routes (upload, analyze, optimize, delete) and by the background        *)
(* analysis task, over the session record and the blobs kept on disk.      *)
(*                                                                         *)
(* Every `await` of a handler is a suspension point of the event loop, so  *)
(* a handler is a sequence of steps, one per awaited read or write of the  *)
(* session directory or LLM call; the code between two awaits is atomic.   *)
(*                                                                         *)
(* Spec is the session lifecycle, and SpecFair is the same lifecycle on an  *)
(* event loop that keeps running its background tasks.  The operations     *)
(* that can be specified on                                                *)
(* their own have a specification each: SpecStatus (Session.update_status  *)
(* under a running clock), SpecCache (CacheManager), SpecLlm              *)
(* (LLMService.call_llm), SpecEnhance (the evaluation and optimization     *)
(* passes and their enhancers), SpecNormalize (the normalization of the    *)
(* uploads) and SpecValidate (their cross-validation).  No handler of Spec *)
(* reads a timestamp, so Spec keeps the clock at its initial instant.      *)
(***************************************************************************)
EXTENDS Integers, Sequences, FiniteSets, TLC

\* Bounds of the model.
MaxTasks == 2      \* background tasks scheduled in one run of the model
MaxReqs == 2       \* requests that can be in flight at once

Tasks == 1..MaxTasks
Reqs == 1..MaxReqs

\* Python None, for an optional string and for an optional JSON result.
None == "None"
NoReport == None

\* The results of the LLM passes, told apart by the code path that made them.
EvaluationByTask == "evaluation_report by _perform_analysis"
OptimizationByTask == "optimization_result by _perform_analysis"
OptimizationByRequest == "optimization_result by start_optimization"

\* models/session.py: SessionStatus
SessionStatus ==
    {"created", "uploaded", "analyzing", "analyzed", "optimizing", "completed", "error"}

\* The value of str(e) for the exceptions the pipeline can raise.
MsgSessionNotFound == "Session not found: s1"
MsgFileNotFound == "Agents config file not found: s1/input/agents_config.json"
MsgInvalidFiles == "Validation failed"
MsgEvaluationFailed == "Context evaluation failed: LLM call failed"
MsgOptimizationFailed == "Context optimization failed: LLM call failed"
PipelineMessages ==
    {MsgSessionNotFound, MsgFileNotFound, MsgInvalidFiles,
     MsgEvaluationFailed, MsgOptimizationFailed}

\* The message analyze_context passes to update_status.
MsgAnalysisStarted == "Analysis started"

VARIABLES
    store,      \* session.json of the session: a Session record, or NoSession
    files,      \* the rest of the session directory
    req,        \* the in-flight requests (one coroutine each)
    task,       \* the background tasks (one coroutine each)
    returned,   \* what the step just taken returned to its client, if it ended a request
    now,        \* the clock: datetime.utcnow(), time.time()
    cache,      \* CacheManager._cache of the global cache_manager
    call,       \* the coroutines and threads that use the cache
    unit        \* the object an operation specified on its own is applied to

vars == <<store, files, req, task, returned, now, cache, call, unit>>
sessionVars == <<store, files, req, task, returned>>
unitVars == <<now, cache, call, unit>>

(***************************************************************************)
(* models/session.py: Session                                              *)
(***************************************************************************)
\* session.json does not exist.
NoSession ==
    [status |-> "absent",
     agents_config_filename |-> None,
     messages_dataset_filename |-> None,
     evaluation_report |-> NoReport,
     optimization_result |-> NoReport,
     error_message |-> None,
     created_at |-> 0,
     updated_at |-> 0]

\* Session(session_id=...) with the defaults of the model's fields.
NewSession ==
    [status |-> "created",
     agents_config_filename |-> None,
     messages_dataset_filename |-> None,
     evaluation_report |-> NoReport,
     optimization_result |-> NoReport,
     error_message |-> None,
     created_at |-> now,
     updated_at |-> now]

\* Python truthiness of an Optional[str].
Truthy(msg) == msg /= None /\ msg /= ""

update_status_ignoring_message(session, status, error_message) ==
    [session EXCEPT !.status = status, !.updated_at = now]

update_status(session, status, error_message) ==
    LET s1 == [session EXCEPT !.status = status, !.updated_at = now]
    IN  IF Truthy(error_message)
        THEN LET s2 == [s1 EXCEPT !.error_message = error_message]
             IN  IF status /= "error" THEN [s2 EXCEPT !.status = "error"] ELSE s2
        ELSE s1

\* SessionService.update_session stamps the record it is about to save.
update_session(session) == [session EXCEPT !.updated_at = now]

has_files(session) ==
    /\ session.agents_config_filename /= None
    /\ session.messages_dataset_filename /= None

has_analysis(session) == session.evaluation_report /= NoReport

has_optimization(session) == session.optimization_result /= NoReport

\* `not session.evaluation_report`: reports are non-empty dicts, so a report
\* is falsy exactly when it is None.
ReportTruthy(report) == report /= NoReport

(***************************************************************************)
(* The session directory                                                   *)
(***************************************************************************)
NoFiles ==
    [dir |-> FALSE,             \* the session directory exists
     input_dir |-> FALSE,       \* the input/ sub-directory exists
     input |-> "none",          \* the two uploaded files: none, ok or bad
     analysis_dir |-> FALSE,    \* the analysis/ sub-directory exists
     evaluation_file |-> FALSE,     \* analysis/evaluation_report.json exists
     optimization_file |-> FALSE]   \* analysis/optimization_result.json exists

\* FileService.process_session_files: "ok" when it returns, else str(e).
process_session_files(f) ==
    IF f.input = "none" THEN MsgFileNotFound
    ELSE IF f.input = "bad" THEN MsgInvalidFiles
    ELSE "ok"

\* utils/cache.py: the keys of the cache, the values kept under them, and an
\* entry of CacheManager._cache (NoEntry: the key is not in the dict).
CacheKeys == {"llm:k1", "llm:k2"}
CacheValues == {"r1", "r2"}
NoEntry == [present |-> FALSE, value |-> None, expires_at |-> 0]

\* The units specified on their own, at rest.
NoCache == [entries |-> [k \in CacheKeys |-> NoEntry], lock |-> 0]
NoCalls == <<>>
NoUnit == [op |-> "none"]

IdleReq == [pc |-> "idle", session |-> NoSession, result |-> NoReport]
IdleTask == [pc |-> "idle", session |-> NoSession, exc |-> None]
DoneTask == [pc |-> "done", session |-> NoSession, exc |-> None]

NoResponse == [code |-> 0, status |-> None, body |-> NoReport]
Response(code, status, body) == [code |-> code, status |-> status, body |-> body]
NothingReturned ==
    [kind |-> "none", snapshot |-> NoSession, response |-> NoResponse,
     scheduled |-> FALSE, wrote_session |-> NoSession, wrote_blob |-> FALSE,
     llm_called |-> FALSE]

Returns(kind, snapshot, response) ==
    [kind |-> kind, snapshot |-> snapshot, response |-> response,
     scheduled |-> FALSE, wrote_session |-> NoSession, wrote_blob |-> FALSE,
     llm_called |-> FALSE]

Init ==
    /\ store = NoSession
    /\ files = NoFiles
    /\ req = [r \in Reqs |-> IdleReq]
    /\ task = [t \in Tasks |-> IdleTask]
    /\ returned = NothingReturned
    /\ now = 0
    /\ cache = NoCache
    /\ call = NoCalls
    /\ unit = NoUnit

(***************************************************************************)
(* Slots: a new coroutine takes the lowest idle slot.  A request slot is   *)
(* free again when its request has returned; a task slot is used once.     *)
(***************************************************************************)
IdleReqs == {r \in Reqs : req[r].pc = "idle"}
IdleTasks == {t \in Tasks : task[t].pc = "idle"}
FreeReq(r) == r \in IdleReqs /\ \A q \in IdleReqs : r <= q
FreeTask(t) == t \in IdleTasks /\ \A q \in IdleTasks : t <= q

\* FileUtils.save_json creates the parent directories of the file it writes.
SavedSessionFile(f) == [f EXCEPT !.dir = TRUE]
SavedAnalysisFile(f) == [f EXCEPT !.dir = TRUE, !.analysis_dir = TRUE]

(***************************************************************************)
(* api/routes.py: how each route's except clauses turn an exception into   *)
(* an HTTP status.  An HTTPException raised inside the try block is itself *)
(* an Exception, so the final `except Exception` clause catches it.        *)
(***************************************************************************)
upload_files_except(exc) ==
    IF exc = "ValidationError" THEN 400 ELSE 500

analyze_context_except(exc) ==
    IF exc = "SessionNotFoundError" THEN 404 ELSE 500

start_optimization_except(exc) ==
    IF exc = "SessionNotFoundError" THEN 404 ELSE 500

get_evaluation_report_except(exc) ==
    IF exc = "SessionNotFoundError" THEN 404 ELSE 500

get_optimization_result_except(exc) ==
    IF exc = "SessionNotFoundError" THEN 404 ELSE 500

delete_session_except(exc) == 500

(***************************************************************************)
(* POST /upload: upload_files, SessionService.create_session               *)
(***************************************************************************)
\* content: "notjson" fails json.loads; "bad" parses but does not normalize.
upload_files(content) ==
    /\ ~files.dir
    /\ IF content = "notjson"
       THEN /\ returned' = Returns("upload", NoSession,
                   Response(upload_files_except("ValidationError"), None, NoReport))
            /\ UNCHANGED <<store, files>>
       ELSE LET session == [NewSession EXCEPT
                               !.agents_config_filename = "input/agents_config.json",
                               !.messages_dataset_filename = "input/messages_dataset.json",
                               !.status = "uploaded"]
            IN  /\ store' = session
                /\ files' = [NoFiles EXCEPT !.dir = TRUE, !.input_dir = TRUE,
                                            !.input = content]
                /\ returned' = [Returns("upload", NoSession,
                                        Response(200, session.status, NoReport))
                                EXCEPT !.wrote_session = session]
    /\ UNCHANGED <<req, task>>
    /\ UNCHANGED unitVars

(***************************************************************************)
(* POST /analyze: analyze_context                                          *)
(***************************************************************************)
\* The branch analyze_context takes for the session it loaded.
analyze_decision_without_progress_check(session) ==
    IF ~has_files(session) THEN "no_files"
    ELSE IF has_analysis(session) /\ session.status /= "error" THEN "already_completed"
    ELSE "start"

analyze_decision_without_completed_check(session) ==
    IF ~has_files(session) THEN "no_files"
    ELSE IF session.status = "analyzing" THEN "in_progress"
    ELSE "start"

analyze_decision(session) ==
    IF ~has_files(session) THEN "no_files"
    ELSE IF session.status = "analyzing" THEN "in_progress"
    ELSE IF has_analysis(session) /\ session.status /= "error" THEN "already_completed"
    ELSE "start"

\* get_session and the checks that follow it, up to the next await.
analyze_context_get(r) ==
    /\ FreeReq(r)
    /\ IF store = NoSession
       THEN /\ returned' = Returns("analyze", store,
                   Response(analyze_context_except("SessionNotFoundError"), None, NoReport))
            /\ UNCHANGED req
       ELSE CASE analyze_decision(store) = "no_files" ->
                   /\ returned' = Returns("analyze", store,
                          Response(analyze_context_except("HTTPException"), None, NoReport))
                   /\ UNCHANGED req
              [] analyze_decision(store) = "in_progress" ->
                   /\ returned' = Returns("analyze", store,
                          Response(200, "processing", NoReport))
                   /\ UNCHANGED req
              [] analyze_decision(store) = "already_completed" ->
                   /\ returned' = Returns("analyze", store,
                          Response(200, "completed", NoReport))
                   /\ UNCHANGED req
              [] OTHER ->
                   /\ req' = [req EXCEPT ![r] =
                          [pc |-> "analyze_update", session |-> store, result |-> NoReport]]
                   /\ returned' = NothingReturned
    /\ UNCHANGED <<store, files, task>>
    /\ UNCHANGED unitVars

\* update_status, update_session, add_task and the acknowledgment.
analyze_context_update(r) ==
    /\ req[r].pc = "analyze_update"
    /\ \E t \in Tasks :
          /\ FreeTask(t)
          /\ task' = [task EXCEPT ![t] = [IdleTask EXCEPT !.pc = "queued"]]
    /\ LET session == update_session(
                          update_status(req[r].session, "analyzing", MsgAnalysisStarted))
       IN  /\ store' = session
           /\ files' = SavedSessionFile(files)
           /\ returned' = [Returns("analyze", req[r].session,
                                   Response(200, "processing", NoReport))
                           EXCEPT !.scheduled = TRUE, !.wrote_session = session]
    /\ req' = [req EXCEPT ![r] = IdleReq]
    /\ UNCHANGED unitVars

(***************************************************************************)
(* POST /optimize/{session_id}: start_optimization                         *)
(***************************************************************************)
\* The branch start_optimization takes for the session it loaded.
optimize_decision_without_stored_check(session) ==
    IF ~ReportTruthy(session.evaluation_report) THEN "precondition"
    ELSE "run"

optimize_decision(session) ==
    IF ~ReportTruthy(session.evaluation_report) THEN "precondition"
    ELSE IF ReportTruthy(session.optimization_result) THEN "stored"
    ELSE "run"

start_optimization_get(r) ==
    /\ FreeReq(r)
    /\ IF store = NoSession
       THEN /\ returned' = Returns("optimize", store,
                   Response(start_optimization_except("SessionNotFoundError"), None, NoReport))
            /\ UNCHANGED req
       ELSE CASE optimize_decision(store) = "precondition" ->
                   /\ returned' = Returns("optimize", store,
                          Response(start_optimization_except("HTTPException"), None, NoReport))
                   /\ UNCHANGED req
              [] optimize_decision(store) = "stored" ->
                   /\ returned' = Returns("optimize", store,
                          Response(200, None, store.optimization_result))
                   /\ UNCHANGED req
              [] OTHER ->
                   /\ req' = [req EXCEPT ![r] =
                          [pc |-> "optimize_files", session |-> store, result |-> NoReport]]
                   /\ returned' = NothingReturned
    /\ UNCHANGED <<store, files, task>>
    /\ UNCHANGED unitVars

\* FileService.process_session_files
start_optimization_files(r) ==
    /\ req[r].pc = "optimize_files"
    /\ IF process_session_files(files) = "ok"
       THEN /\ req' = [req EXCEPT ![r].pc = "optimize_llm"]
            /\ returned' = NothingReturned
       ELSE /\ returned' = Returns("optimize", req[r].session,
                   Response(start_optimization_except("FileProcessingError"), None, NoReport))
            /\ req' = [req EXCEPT ![r] = IdleReq]
    /\ UNCHANGED <<store, files, task>>
    /\ UNCHANGED unitVars

\* optimizer.optimize_context, which returns the result or raises
\* LLMServiceError, and FileUtils.save_json(optimization_result,
\* optimization_file).  The LLM call touches nothing shared (the response
\* cache is modelled apart), so it is one step with the write that follows it.
start_optimization_llm(r) ==
    /\ req[r].pc = "optimize_llm"
    /\ \/ /\ req' = [req EXCEPT ![r].pc = "optimize_update",
                                ![r].result = OptimizationByRequest]
          /\ files' = [SavedAnalysisFile(files) EXCEPT !.optimization_file = TRUE]
          /\ returned' = NothingReturned
       \/ /\ returned' = [Returns("optimize", req[r].session,
                   Response(start_optimization_except("LLMServiceError"), None, NoReport))
                          EXCEPT !.llm_called = TRUE]
          /\ req' = [req EXCEPT ![r] = IdleReq]
          /\ UNCHANGED files
    /\ UNCHANGED <<store, task>>
    /\ UNCHANGED unitVars

\* session.optimization_result = ..., update_status(COMPLETED), update_session
start_optimization_update(r) ==
    /\ req[r].pc = "optimize_update"
    /\ LET session == update_session(update_status(
                          [req[r].session EXCEPT !.optimization_result = req[r].result],
                          "completed", None))
       IN  /\ store' = session
           /\ files' = SavedSessionFile(files)
           /\ returned' = [Returns("optimize", req[r].session,
                                   Response(200, None, req[r].result))
                           EXCEPT !.wrote_session = session, !.wrote_blob = TRUE,
                                  !.llm_called = TRUE]
    /\ req' = [req EXCEPT ![r] = IdleReq]
    /\ UNCHANGED task
    /\ UNCHANGED unitVars

(***************************************************************************)
(* GET /session/{session_id}/evaluation and /optimization.  Each handler   *)
(* has one await, get_session, so it is one step.                          *)
(***************************************************************************)
get_evaluation_report ==
    /\ IF store = NoSession
       THEN returned' = Returns("get_evaluation", store,
                Response(get_evaluation_report_except("SessionNotFoundError"),
                         None, NoReport))
       ELSE IF ~ReportTruthy(store.evaluation_report)
       THEN returned' = Returns("get_evaluation", store,
                Response(get_evaluation_report_except("HTTPException"), None, NoReport))
       ELSE returned' = Returns("get_evaluation", store,
                Response(200, None, store.evaluation_report))
    /\ UNCHANGED <<store, files, req, task>>
    /\ UNCHANGED unitVars

get_optimization_result ==
    /\ IF store = NoSession
       THEN returned' = Returns("get_optimization", store,
                Response(get_optimization_result_except("SessionNotFoundError"),
                         None, NoReport))
       ELSE IF ~ReportTruthy(store.optimization_result)
       THEN returned' = Returns("get_optimization", store,
                Response(get_optimization_result_except("HTTPException"), None, NoReport))
       ELSE returned' = Returns("get_optimization", store,
                Response(200, None, store.optimization_result))
    /\ UNCHANGED <<store, files, req, task>>
    /\ UNCHANGED unitVars

(***************************************************************************)
(* DELETE /session/{session_id}: delete_session,                           *)
(* SessionService.delete_session.  The service unlinks the files of the    *)
(* directory tree and then calls rmdir on the session directory, which     *)
(* raises while a sub-directory is left in it.                             *)
(***************************************************************************)
delete_session ==
    /\ IF files.dir
       THEN /\ store' = NoSession
            /\ IF files.input_dir \/ files.analysis_dir
               THEN /\ files' = [files EXCEPT !.input = "none",
                                              !.evaluation_file = FALSE,
                                              !.optimization_file = FALSE]
                    /\ returned' = Returns("delete", store,
                           Response(delete_session_except("FileProcessingError"),
                                    None, NoReport))
               ELSE /\ files' = NoFiles
                    /\ returned' = Returns("delete", store, Response(200, None, NoReport))
       ELSE /\ returned' = Returns("delete", store,
                   Response(delete_session_except("HTTPException"), None, NoReport))
            /\ UNCHANGED <<store, files>>
    /\ UNCHANGED <<req, task>>
    /\ UNCHANGED unitVars

(***************************************************************************)
(* The background task: _perform_analysis                                  *)
(***************************************************************************)
Raise(t, message) == [task EXCEPT ![t].pc = "failed", ![t].exc = message]

\* session = await session_service.get_session(session_id)
perform_analysis_get(t) ==
    /\ task[t].pc = "queued"
    /\ IF store = NoSession
       THEN task' = Raise(t, MsgSessionNotFound)
       ELSE task' = [task EXCEPT ![t].pc = "files", ![t].session = store]
    /\ returned' = NothingReturned
    /\ UNCHANGED <<store, files, req>>
    /\ UNCHANGED unitVars

\* FileService.process_session_files
perform_analysis_files(t) ==
    /\ task[t].pc = "files"
    /\ IF process_session_files(files) = "ok"
       THEN task' = [task EXCEPT ![t].pc = "mark_analyzing"]
       ELSE task' = Raise(t, process_session_files(files))
    /\ returned' = NothingReturned
    /\ UNCHANGED <<store, files, req>>
    /\ UNCHANGED unitVars

\* update_status(ANALYZING), update_session
perform_analysis_mark_analyzing(t) ==
    /\ task[t].pc = "mark_analyzing"
    /\ LET session == update_session(update_status(task[t].session, "analyzing", None))
       IN  /\ store' = session
           /\ files' = SavedSessionFile(files)
           /\ task' = [task EXCEPT ![t].pc = "evaluate", ![t].session = session]
    /\ returned' = NothingReturned
    /\ UNCHANGED req
    /\ UNCHANGED unitVars

\* evaluator.evaluate_context, which returns the report or raises
\* LLMServiceError; then analysis_dir.mkdir and
\* FileUtils.save_json(evaluation_report, evaluation_file).
perform_analysis_evaluate(t) ==
    /\ task[t].pc = "evaluate"
    /\ \/ /\ task' = [task EXCEPT ![t].pc = "mark_analyzed"]
          /\ files' = [SavedAnalysisFile(files) EXCEPT !.evaluation_file = TRUE]
       \/ /\ task' = Raise(t, MsgEvaluationFailed)
          /\ UNCHANGED files
    /\ returned' = NothingReturned
    /\ UNCHANGED <<store, req>>
    /\ UNCHANGED unitVars

\* update_status(ANALYZED), session.evaluation_report = ..., update_session
perform_analysis_mark_analyzed_unsaved(t) ==
    /\ task[t].pc = "mark_analyzed"
    /\ LET session == [update_status(task[t].session, "analyzed", None)
                          EXCEPT !.evaluation_report = EvaluationByTask]
       IN  task' = [task EXCEPT ![t].pc = "optimize", ![t].session = session]
    /\ returned' = NothingReturned
    /\ UNCHANGED <<store, files, req>>
    /\ UNCHANGED unitVars

\* The same step with the record saved before the report is assigned to it.
perform_analysis_mark_analyzed_before_report(t) ==
    /\ task[t].pc = "mark_analyzed"
    /\ LET session == update_session(update_status(task[t].session, "analyzed", None))
       IN  /\ store' = session
           /\ files' = SavedSessionFile(files)
           /\ task' = [task EXCEPT ![t].pc = "optimize",
                                   ![t].session = [session EXCEPT
                                       !.evaluation_report = EvaluationByTask]]
    /\ returned' = NothingReturned
    /\ UNCHANGED req
    /\ UNCHANGED unitVars

perform_analysis_mark_analyzed(t) ==
    /\ task[t].pc = "mark_analyzed"
    /\ LET session == update_session(
                          [update_status(task[t].session, "analyzed", None)
                              EXCEPT !.evaluation_report = EvaluationByTask])
       IN  /\ store' = session
           /\ files' = SavedSessionFile(files)
           /\ task' = [task EXCEPT ![t].pc = "optimize", ![t].session = session]
    /\ returned' = NothingReturned
    /\ UNCHANGED req
    /\ UNCHANGED unitVars

\* optimizer.optimize_context, which returns the result or raises
\* LLMServiceError; then FileUtils.save_json(optimization_result,
\* optimization_file).
perform_analysis_optimize(t) ==
    /\ task[t].pc = "optimize"
    /\ \/ /\ task' = [task EXCEPT ![t].pc = "mark_completed"]
          /\ files' = [SavedAnalysisFile(files) EXCEPT !.optimization_file = TRUE]
       \/ /\ task' = Raise(t, MsgOptimizationFailed)
          /\ UNCHANGED files
    /\ returned' = NothingReturned
    /\ UNCHANGED <<store, req>>
    /\ UNCHANGED unitVars

\* session.optimization_result = ..., update_status(COMPLETED), update_session
perform_analysis_mark_completed(t) ==
    /\ task[t].pc = "mark_completed"
    /\ LET session == update_session(update_status(
                          [task[t].session EXCEPT !.optimization_result = OptimizationByTask],
                          "completed", None))
       IN  store' = session
    /\ files' = SavedSessionFile(files)
    /\ task' = [task EXCEPT ![t] = DoneTask]
    /\ returned' = NothingReturned
    /\ UNCHANGED req
    /\ UNCHANGED unitVars

\* The task with no handler: the exception is logged and the task ends.
perform_analysis_without_recovery(t) ==
    /\ task[t].pc = "failed"
    /\ task' = [task EXCEPT ![t] = DoneTask]
    /\ returned' = NothingReturned
    /\ UNCHANGED <<store, files, req>>
    /\ UNCHANGED unitVars

\* except Exception as e: the session is fetched again; a failure of the
\* fetch is logged and the task ends.
perform_analysis_recover_get(t) ==
    /\ task[t].pc = "failed"
    /\ IF store = NoSession
       THEN task' = [task EXCEPT ![t] = DoneTask]
       ELSE task' = [task EXCEPT ![t].pc = "recover", ![t].session = store]
    /\ returned' = NothingReturned
    /\ UNCHANGED <<store, files, req>>
    /\ UNCHANGED unitVars

\* update_status(ERROR, str(e)), update_session
perform_analysis_recover_update(t) ==
    /\ task[t].pc = "recover"
    /\ store' = update_session(update_status(task[t].session, "error", task[t].exc))
    /\ files' = SavedSessionFile(files)
    /\ task' = [task EXCEPT ![t] = DoneTask]
    /\ returned' = NothingReturned
    /\ UNCHANGED req
    /\ UNCHANGED unitVars

Next ==
    \/ \E content \in {"ok", "bad", "notjson"} : upload_files(content)
    \/ \E r \in Reqs : analyze_context_get(r)
    \/ \E r \in Reqs : analyze_context_update(r)
    \/ \E r \in Reqs : start_optimization_get(r)
    \/ \E r \in Reqs : start_optimization_files(r)
    \/ \E r \in Reqs : start_optimization_llm(r)
    \/ \E r \in Reqs : start_optimization_update(r)
    \/ get_evaluation_report
    \/ get_optimization_result
    \/ delete_session
    \/ \E t \in Tasks : perform_analysis_get(t)
    \/ \E t \in Tasks : perform_analysis_files(t)
    \/ \E t \in Tasks : perform_analysis_mark_analyzing(t)
    \/ \E t \in Tasks : perform_analysis_evaluate(t)
    \/ \E t \in Tasks : perform_analysis_mark_analyzed(t)
    \/ \E t \in Tasks : perform_analysis_optimize(t)
    \/ \E t \in Tasks : perform_analysis_mark_completed(t)
    \/ \E t \in Tasks : perform_analysis_recover_get(t)
    \/ \E t \in Tasks : perform_analysis_recover_update(t)

Spec == Init /\ [][Next]_vars

(***************************************************************************)
(* SpecFair: the same program on an event loop that does not stop.  A      *)
(* background task that can take its next step takes it: the awaits of     *)
(* _perform_analysis (reads and writes of the session directory, file      *)
(* processing, the two LLM calls) all return or raise.  Clients are under  *)
(* no obligation to send requests.                                         *)
(***************************************************************************)
perform_analysis(t) ==
    \/ perform_analysis_get(t)
    \/ perform_analysis_files(t)
    \/ perform_analysis_mark_analyzing(t)
    \/ perform_analysis_evaluate(t)
    \/ perform_analysis_mark_analyzed(t)
    \/ perform_analysis_optimize(t)
    \/ perform_analysis_mark_completed(t)
    \/ perform_analysis_recover_get(t)
    \/ perform_analysis_recover_update(t)

\* The requests of one client, which sends a request when the one before
\* has returned.
MaxFairReqs == 1
FairReqs == 1..MaxFairReqs

NextFair ==
    \/ \E content \in {"ok", "bad", "notjson"} : upload_files(content)
    \/ \E r \in FairReqs : analyze_context_get(r)
    \/ \E r \in FairReqs : analyze_context_update(r)
    \/ \E r \in FairReqs : start_optimization_get(r)
    \/ \E r \in FairReqs : start_optimization_files(r)
    \/ \E r \in FairReqs : start_optimization_llm(r)
    \/ \E r \in FairReqs : start_optimization_update(r)
    \/ get_evaluation_report
    \/ get_optimization_result
    \/ delete_session
    \/ \E t \in Tasks : perform_analysis(t)

SpecFair ==
    Init /\ [][NextFair]_vars /\ \A t \in Tasks : WF_vars(perform_analysis(t))

(***************************************************************************)
(* Properties of the session lifecycle                                     *)
(***************************************************************************)
Analyzed(r) == r.kind = "analyze" /\ r.snapshot /= NoSession
Optimized(r) == r.kind = "optimize" /\ r.snapshot /= NoSession
WroteNothing(r) == r.wrote_session = NoSession /\ ~r.wrote_blob

\* C1: when an analyze request is accepted for a session in `uploaded` that
\* has its files and no evaluation report, the record that request persisted
\* has status `analyzing` when the "processing" acknowledgment is returned.
C1_AcceptedAnalyzePersistsAnalyzing ==
    ( /\ Analyzed(returned)
      /\ returned.scheduled
      /\ returned.snapshot.status = "uploaded"
      /\ has_files(returned.snapshot)
      /\ ~has_analysis(returned.snapshot)
      /\ returned.response.status = "processing" )
    => /\ returned.wrote_session.status = "analyzing"
       /\ store.status = "analyzing"

\* C2: once the persisted status is `error`, no analyze request, optimize
\* request or background task changes it to another status; only deletion
\* ends the `error` state.
C2_ErrorIsLeftOnlyByDeletion ==
    [][(store.status = "error" /\ store' /= NoSession) => store'.status = "error"]_vars

\* C3: once the persisted status is `completed`, no interleaving of analyze
\* requests, optimize requests and background tasks changes it; only deletion
\* ends a completed session.
C3_CompletedIsLeftOnlyByDeletion ==
    [][(store.status = "completed" /\ store' /= NoSession)
          => store'.status = "completed"]_vars

\* C4: when a step of the background pipeline raises, the task fetches the
\* session record again and persists it with status `error` and error_message
\* equal to the exception's message; when the fetch of the recovery fails, the
\* failure is swallowed: the task ends and writes nothing.
C4_FailureIsRecordedOrSwallowed ==
    [][\A t \in Tasks :
          /\ (task[t].pc = "failed" /\ task'[t].pc /= "failed")
                => \/ /\ task'[t].pc = "recover"
                      /\ task'[t].session = store
                      /\ task'[t].exc = task[t].exc
                      /\ store' = store
                   \/ /\ task'[t].pc = "done"
                      /\ store = NoSession
                      /\ store' = store
          /\ (task[t].pc = "recover" /\ task'[t].pc /= "recover")
                => /\ task'[t].pc = "done"
                   /\ store' = [task[t].session EXCEPT
                                   !.status = "error",
                                   !.error_message = task[t].exc,
                                   !.updated_at = now]
                   /\ task[t].exc \in PipelineMessages
      ]_vars

C4_Witness ==
    /\ store.status = "error"
    /\ store.error_message = MsgOptimizationFailed
    /\ has_analysis(store)
    /\ \E t \in Tasks : task[t].pc = "done"

\* C5: an analyze request for a session whose persisted status is
\* `analyzing` returns a "processing" acknowledgment, schedules no background
\* task and writes nothing.
C5_AnalyzeWhileAnalyzingIsNoOp ==
    (Analyzed(returned) /\ returned.snapshot.status = "analyzing")
    => /\ returned.response.code = 200
       /\ returned.response.status = "processing"
       /\ ~returned.scheduled
       /\ ~returned.llm_called
       /\ WroteNothing(returned)

C5_Witness ==
    /\ Analyzed(returned)
    /\ returned.snapshot.status = "analyzing"
    /\ returned.response.status = "processing"
    /\ store.status = "analyzing"

C7_OptimizeWithoutReportIs400 ==
    (Optimized(returned) /\ ~has_analysis(returned.snapshot))
    => /\ returned.response.code = 400
       /\ ~returned.llm_called
       /\ WroteNothing(returned)

\* C8: an optimize request for a session that already has an optimization
\* result returns exactly the stored result, makes no LLM call and writes
\* neither the optimization result blob nor the session record.
C8_OptimizeReturnsStoredResult ==
    (Optimized(returned) /\ has_optimization(returned.snapshot))
    => /\ returned.response.code = 200
       /\ returned.response.body = returned.snapshot.optimization_result
       /\ ~returned.llm_called
       /\ WroteNothing(returned)

C8_Witness ==
    /\ Optimized(returned)
    /\ returned.snapshot.optimization_result = OptimizationByTask
    /\ returned.response.body = OptimizationByTask

\* C9: within one run of the background pipeline, the session record with
\* the evaluation report and status `analyzed` is written by the step that
\* precedes the optimization phase: a task enters the phase only by the step
\* that has just persisted that record.
C9_AnalyzedWrittenBeforeOptimization ==
    [][\A t \in Tasks :
          (task[t].pc /= "optimize" /\ task'[t].pc = "optimize")
             => /\ task[t].pc = "mark_analyzed"
                /\ store'.status = "analyzed"
                /\ store'.evaluation_report = EvaluationByTask
                /\ store' = task'[t].session
      ]_vars

C9_Witness ==
    \E t \in Tasks :
        /\ task[t].pc = "optimize"
        /\ store = task[t].session
        /\ store.status = "analyzed"
        /\ has_analysis(store)

\* C10: in a pipeline run in which no step fails the persisted status goes
\* through `analyzing`, `analyzed`, `optimizing`, `completed` without skipping
\* a state: `completed` is entered only from `optimizing`.
C10_CompletedEnteredFromOptimizing ==
    [][(store'.status = "completed" /\ store.status /= "completed")
          => store.status = "optimizing"]_vars

\* C12: an upload is admitted into `uploaded` only when its two files
\* normalize and pass cross-validation; any other upload is rejected as a
\* validation error and leaves no session record and no file behind.
C12_UploadAdmitsOnlyNormalizedFiles ==
    returned.kind = "upload"
    => \/ /\ returned.response.code = 200
          /\ store.status = "uploaded"
          /\ process_session_files(files) = "ok"
       \/ /\ returned.response.code = 400
          /\ store = NoSession
          /\ files = NoFiles

\* C13: deleting an existing session created by upload reports success and
\* removes the session record together with every artifact and namespace of
\* the session.
C13_DeleteRemovesTheSession ==
    (returned.kind = "delete" /\ returned.snapshot /= NoSession)
    => /\ returned.response.code = 200
       /\ store = NoSession
       /\ files = NoFiles

\* C14: a request that names a missing session, a request for a report the
\* session does not have, and the deletion of a nonexistent session end with
\* 404 and never with 500.
C14_MissingIsNotFound ==
    /\ (returned.kind /= "none" /\ returned.kind /= "upload"
           /\ returned.snapshot = NoSession)
          => returned.response.code = 404
    /\ (returned.kind = "get_evaluation" /\ returned.snapshot /= NoSession
           /\ ~has_analysis(returned.snapshot))
          => returned.response.code = 404
    /\ (returned.kind = "get_optimization" /\ returned.snapshot /= NoSession
           /\ ~has_optimization(returned.snapshot))
          => returned.response.code = 404

\* C30: at most one background analysis pipeline of the session is
\* scheduled or running at any time: an analyze request schedules no task
\* while a task scheduled before has not ended.
Active(t) == task[t].pc \notin {IdleTask.pc, DoneTask.pc}

C30_OnePipelineAtATime ==
    /\ Cardinality({t \in Tasks : Active(t)}) <= 1
    /\ (returned.kind = "analyze" /\ returned.scheduled)
       => Cardinality({t \in Tasks : Active(t)}) = 1

\* C31: stored results are never lost: when session.json holds an evaluation
\* report (an optimization result), the version of session.json written by
\* the next step of a request or of a background task holds one too.
C31_StoredResultsAreNeverLost ==
    [][store' /= NoSession =>
          /\ (has_analysis(store) => has_analysis(store'))
          /\ (has_optimization(store) => has_optimization(store'))]_vars

\* C32: in every version of session.json, status `analyzed` implies that an
\* evaluation report is present, and status `completed` implies that an
\* evaluation report and an optimization result are both present.
C32_StatusImpliesStoredResults ==
    /\ store.status = "analyzed" => has_analysis(store)
    /\ store.status = "completed" => has_analysis(store) /\ has_optimization(store)

\* session.json has been written as `analyzed` by a background task and as
\* `completed` by a request or by a task since the last step.
C32_Witness ==
    /\ store.status = "completed"
    /\ has_analysis(store) /\ has_optimization(store)
    /\ \E t \in Tasks : task[t].session.status = "analyzed"
    /\ returned.kind = "optimize" /\ returned.wrote_session = store

\* C34: in every version of session.json, error_message is set only when
\* the status is `error`: a record in `uploaded`, `analyzing`, `analyzed` or
\* `completed` has no error message.
C34_ErrorMessageOnlyInError ==
    (store /= NoSession /\ store.error_message /= None) => store.status = "error"

\* C33: on an event loop that does not stop, every accepted analysis ends
\* with session.json in `completed` or `error` (or with no session.json, when
\* the session was deleted under it), session.json does not stay in
\* `analyzing` forever, and it is in `completed` or `error` whenever nothing
\* is running any more, whether the LLM calls and the file processing return
\* or raise.
Settled == store = NoSession \/ store.status \in {"completed", "error"}

\* Nothing is running: every scheduled task has ended and no request is in
\* flight.
Quiescent ==
    /\ \E t \in Tasks : task[t].pc = DoneTask.pc
    /\ \A t \in Tasks : ~Active(t)
    /\ \A r \in Reqs : req[r].pc = IdleReq.pc

C33_AcceptedAnalysisSettles ==
    /\ \A t \in Tasks :
          (task[t].pc = "queued") ~> (task[t].pc = DoneTask.pc /\ Settled)
    /\ (store.status = "analyzing") ~> (store.status /= "analyzing")
    /\ [](Quiescent => Settled)

\* A task has written `analyzing`, its evaluation has failed, and its
\* handler has written `error` with the message of the failure.
C33_Witness ==
    /\ \E t \in Tasks : task[t].pc = DoneTask.pc
    /\ store.status = "error"
    /\ store.error_message = MsgEvaluationFailed

(***************************************************************************)
(* SpecStatus: Session.update_status applied to a session object while the *)
(* clock runs.                                                             *)
(***************************************************************************)
MaxClock == 3      \* the instants of the clock are 0..MaxClock

\* The values a caller can pass as error_message: no message, the empty
\* string, and the messages the routes and the pipeline pass.
ErrorMessages == {None, "", MsgAnalysisStarted, MsgEvaluationFailed}

\* The session objects update_status is applied to.
SessionObjects ==
    {[NoSession EXCEPT !.status = s, !.error_message = m] :
        s \in SessionStatus, m \in {None, MsgOptimizationFailed}}

InitStatus ==
    /\ store = NoSession
    /\ files = NoFiles
    /\ req = [r \in Reqs |-> IdleReq]
    /\ task = [t \in Tasks |-> IdleTask]
    /\ returned = NothingReturned
    /\ now = 0
    /\ cache = NoCache
    /\ call = NoCalls
    /\ unit \in {[op |-> "Session", session |-> s, before |-> s, status |-> s.status,
                  error_message |-> None, at |-> 0] : s \in SessionObjects}

\* Time passes.
Tick ==
    /\ now < MaxClock
    /\ now' = now + 1
    /\ UNCHANGED <<sessionVars, cache, call, unit>>

\* session.update_status(status, error_message)
Session_update_status(status, error_message) ==
    /\ unit' = [op |-> "update_status",
                session |-> update_status(unit.session, status, error_message),
                before |-> unit.session,
                status |-> status,
                error_message |-> error_message,
                at |-> now]
    /\ UNCHANGED <<sessionVars, now, cache, call>>

NextStatus ==
    \/ Tick
    \/ \E status \in SessionStatus, error_message \in ErrorMessages :
          Session_update_status(status, error_message)

SpecStatus == InitStatus /\ [][NextStatus]_vars

\* C11: update_status(target, error_message) stamps the updated timestamp in
\* every call; when an error message is supplied, whatever its value and the
\* target, the resulting status is `error` and the message is stored; when
\* none is supplied the resulting status is the requested target.
C11_UpdateStatusIsDeterminedByItsArguments ==
    unit.op = "update_status"
    => /\ unit.session.updated_at = unit.at
       /\ unit.error_message /= None
             => /\ unit.session.status = "error"
                /\ unit.session.error_message = unit.error_message
       /\ unit.error_message = None
             => unit.session.status = unit.status

(***************************************************************************)
(* SpecCache: utils/cache.py, CacheManager.  Several threads of control    *)
(* call get, set, delete, clear and cleanup_expired on the one shared      *)
(* cache.  A step is what a caller does between two points where another   *)
(* caller can run: the statements before `with self._lock`, and inside the *)
(* lock each statement that reads or changes _cache.                       *)
(***************************************************************************)
MaxProcs == 2      \* callers of the cache running at once
MaxTtl == 2        \* the longest time-to-live, in instants of the clock

Procs == 1..MaxProcs

\* The ttl arguments of set: 0 stands for the falsy ones (None and 0).
Ttls == 0..MaxTtl

\* CacheManager(default_ttl=...): the time-to-live used when ttl is falsy.
default_ttl == MaxTtl



IdleProc ==
    [pc |-> "idle", key |-> None, value |-> None, expires_at |-> 0,
     current_time |-> 0, expired_keys |-> {}]

\* `time.time() > entry["expires_at"]`
Expired(entry, time) == time > entry.expires_at

\* What the observer of SpecCache keeps: per key the latest set that has not
\* since been deleted or cleared, and for the get that has just returned its
\* result next to the value of that latest set if its expiry time has not
\* passed at the return (None if there is none or it has passed).
NoGet == [op |-> "none", key |-> None, value |-> None, latest |-> None]
NoHistory == [latest |-> [k \in CacheKeys |-> NoEntry], got |-> NoGet]

Got(key, value) ==
    [op |-> "get", key |-> key, value |-> value,
     latest |-> IF unit.latest[key].present /\ ~Expired(unit.latest[key], now)
                THEN unit.latest[key].value
                ELSE None]

InitCache ==
    /\ store = NoSession
    /\ files = NoFiles
    /\ req = [r \in Reqs |-> IdleReq]
    /\ task = [t \in Tasks |-> IdleTask]
    /\ returned = NothingReturned
    /\ now = 0
    /\ cache = NoCache
    /\ call = [p \in Procs |-> IdleProc]
    /\ unit = NoHistory

\* time.time() moves on.
TickCache ==
    /\ now < MaxClock
    /\ now' = now + 1
    /\ unit' = [unit EXCEPT !.got = NoGet]
    /\ UNCHANGED <<sessionVars, cache, call>>

\* A new call runs in the lowest idle slot.
IdleProcs == {p \in Procs : call[p].pc = "idle"}
FreeProc(p) == p \in IdleProcs /\ \A q \in IdleProcs : p <= q

\* `with self._lock:` the lock is taken when no caller holds it.
LockFreeAlways(p) == TRUE

LockFree(p) == cache.lock = 0

\* get: the lock is taken.
CacheManager_get(p, key) ==
    /\ FreeProc(p)
    /\ LockFree(p)
    /\ cache' = [cache EXCEPT !.lock = p]
    /\ call' = [call EXCEPT ![p].pc = "get_lookup", ![p].key = key]
    /\ unit' = [unit EXCEPT !.got = NoGet]
    /\ UNCHANGED <<sessionVars, now>>

\* get: `if key not in self._cache: return None`
CacheManager_get_lookup(p) ==
    /\ call[p].pc = "get_lookup"
    /\ IF ~cache.entries[call[p].key].present
       THEN /\ cache' = [cache EXCEPT !.lock = 0]
            /\ call' = [call EXCEPT ![p] = IdleProc]
            /\ unit' = [unit EXCEPT !.got = Got(call[p].key, None)]
       ELSE /\ call' = [call EXCEPT ![p].pc = "get_entry"]
            /\ unit' = [unit EXCEPT !.got = NoGet]
            /\ UNCHANGED cache
    /\ UNCHANGED <<sessionVars, now>>

\* get: the entry is read; an expired entry is deleted and None returned,
\* else the value is returned.
CacheManager_get_entry(p) ==
    /\ call[p].pc = "get_entry"
    /\ LET key == call[p].key
           entry == cache.entries[key]
       IN  IF Expired(entry, now)
           THEN /\ cache' = [cache EXCEPT !.entries[key] = NoEntry, !.lock = 0]
                /\ unit' = [unit EXCEPT !.got = Got(key, None)]
           ELSE /\ cache' = [cache EXCEPT !.lock = 0]
                /\ unit' = [unit EXCEPT !.got = Got(key, entry.value)]
    /\ call' = [call EXCEPT ![p] = IdleProc]
    /\ UNCHANGED <<sessionVars, now>>

\* set: `ttl = ttl or self.default_ttl; expires_at = time.time() + ttl`,
\* before the lock.
CacheManager_set(p, key, value, ttl) ==
    /\ FreeProc(p)
    /\ call' = [call EXCEPT ![p].pc = "set_store", ![p].key = key, ![p].value = value,
                            ![p].expires_at =
                                now + (IF ttl /= 0 THEN ttl ELSE default_ttl)]
    /\ unit' = [unit EXCEPT !.got = NoGet]
    /\ UNCHANGED <<sessionVars, now, cache>>

\* set: with the lock, the entry is stored.
CacheManager_set_store(p) ==
    /\ call[p].pc = "set_store"
    /\ LockFree(p)
    /\ LET entry == [present |-> TRUE, value |-> call[p].value,
                     expires_at |-> call[p].expires_at]
       IN  /\ cache' = [cache EXCEPT !.entries[call[p].key] = entry]
           /\ unit' = [unit EXCEPT !.latest[call[p].key] = entry, !.got = NoGet]
    /\ call' = [call EXCEPT ![p] = IdleProc]
    /\ UNCHANGED <<sessionVars, now>>

\* delete: with the lock, the key is removed when it is there.
CacheManager_delete(p, key) ==
    /\ FreeProc(p)
    /\ LockFree(p)
    /\ cache' = [cache EXCEPT !.entries[key] = NoEntry]
    /\ unit' = [unit EXCEPT !.latest[key] = NoEntry, !.got = NoGet]
    /\ UNCHANGED <<sessionVars, now, call>>

\* clear: with the lock, every entry is removed.
CacheManager_clear(p) ==
    /\ FreeProc(p)
    /\ LockFree(p)
    /\ cache' = [cache EXCEPT !.entries = [k \in CacheKeys |-> NoEntry]]
    /\ unit' = [unit EXCEPT !.latest = [k \in CacheKeys |-> NoEntry], !.got = NoGet]
    /\ UNCHANGED <<sessionVars, now, call>>

\* cleanup_expired: `current_time = time.time()`, before the lock.
CacheManager_cleanup_expired(p) ==
    /\ FreeProc(p)
    /\ call' = [call EXCEPT ![p].pc = "cleanup_collect", ![p].current_time = now]
    /\ unit' = [unit EXCEPT !.got = NoGet]
    /\ UNCHANGED <<sessionVars, now, cache>>

\* cleanup_expired: the lock is taken and the expired keys are collected.
CacheManager_cleanup_collect(p) ==
    /\ call[p].pc = "cleanup_collect"
    /\ LockFree(p)
    /\ cache' = [cache EXCEPT !.lock = p]
    /\ call' = [call EXCEPT
                   ![p].pc = "cleanup_delete",
                   ![p].expired_keys =
                       {k \in CacheKeys : /\ cache.entries[k].present
                                          /\ Expired(cache.entries[k], call[p].current_time)}]
    /\ unit' = [unit EXCEPT !.got = NoGet]
    /\ UNCHANGED <<sessionVars, now>>

\* cleanup_expired: the collected keys are deleted and the lock released.
CacheManager_cleanup_delete(p) ==
    /\ call[p].pc = "cleanup_delete"
    /\ cache' = [cache EXCEPT
                    !.entries = [k \in CacheKeys |->
                                    IF k \in call[p].expired_keys
                                    THEN NoEntry ELSE cache.entries[k]],
                    !.lock = 0]
    /\ call' = [call EXCEPT ![p] = IdleProc]
    /\ unit' = [unit EXCEPT !.got = NoGet]
    /\ UNCHANGED <<sessionVars, now>>

NextCache ==
    \/ TickCache
    \/ \E p \in Procs, key \in CacheKeys : CacheManager_get(p, key)
    \/ \E p \in Procs : CacheManager_get_lookup(p)
    \/ \E p \in Procs : CacheManager_get_entry(p)
    \/ \E p \in Procs, key \in CacheKeys, value \in CacheValues, ttl \in Ttls :
          CacheManager_set(p, key, value, ttl)
    \/ \E p \in Procs : CacheManager_set_store(p)
    \/ \E p \in Procs, key \in CacheKeys : CacheManager_delete(p, key)
    \/ \E p \in Procs : CacheManager_clear(p)
    \/ \E p \in Procs : CacheManager_cleanup_expired(p)
    \/ \E p \in Procs : CacheManager_cleanup_collect(p)
    \/ \E p \in Procs : CacheManager_cleanup_delete(p)

SpecCache == InitCache /\ [][NextCache]_vars

\* C15: under any interleaving of get, set, delete, clear and
\* cleanup_expired by several callers, at most one caller is inside the lock,
\* and the get that has just returned gave the value of the latest set on its
\* key when that set has not since been deleted or cleared and its expiry
\* time has not passed, and nothing otherwise.
C15_GetReturnsLatestUnexpiredSet ==
    /\ \A p, q \in Procs :
          ( /\ call[p].pc \in {"get_lookup", "get_entry", "cleanup_delete"}
            /\ call[q].pc \in {"get_lookup", "get_entry", "cleanup_delete"} )
          => p = q
    /\ unit.got.op = "get" => unit.got.value = unit.got.latest

\* A get returns the second of two values set on its key, after the first
\* value set on the other key has expired and been swept.
C15_Witness ==
    /\ unit.got.op = "get"
    /\ unit.got.value = "r2"
    /\ now > 0
    /\ \E k \in CacheKeys : unit.latest[k].present /\ ~cache.entries[k].present

(***************************************************************************)
(* SpecLlm: services/llm_service.py, LLMService.call_llm over the shared   *)
(* cache.  The callers are coroutines of the event loop: a call runs from  *)
(* its start to `await self._call_openai(...)` in one step and from the    *)
(* answer of the LLM to its return in another; cache_manager.get and       *)
(* cache_manager.set do not await, so each is part of one step.            *)
(***************************************************************************)
MaxCalls == 2      \* calls of call_llm in flight at once

Calls == 1..MaxCalls

\* config.py: Settings.max_tokens, Settings.temperature, Settings.openai_model
settings_max_tokens == 4000
settings_temperature == "0.1"
settings_openai_model == "gpt-4o"

\* The arguments of call_llm: the prompt, and max_tokens either falsy (0
\* stands for None and 0) or given.  The system prompt and the temperature
\* are those of the evaluation and optimization passes.
Prompts == {"evaluation_prompt", "optimization_prompt"}
MaxTokensArgs == {0, settings_max_tokens}
SystemPrompt == "system_prompt"

\* The texts the LLM can answer with.
ResponseTexts == {"", "r1", "r2"}

\* self.cache_ttl = settings.llm_cache_ttl, by default the default_ttl of the
\* cache.
cache_ttl == default_ttl

\* `max_tokens = max_tokens or settings.max_tokens`
effective_max_tokens(max_tokens) ==
    IF max_tokens /= 0 THEN max_tokens ELSE settings_max_tokens

\* _generate_cache_key: the md5 digest of the JSON dump of cache_data, which
\* is one key per value of cache_data; the key is written as that value.
generate_cache_key(prompt, system_prompt, max_tokens, temperature) ==
    [prompt |-> prompt, system_prompt |-> system_prompt, max_tokens |-> max_tokens,
     temperature |-> temperature, model |-> settings_openai_model]

\* `cache_key = None`
NoKey ==
    [prompt |-> None, system_prompt |-> None, max_tokens |-> 0,
     temperature |-> None, model |-> None]

LlmKeys ==
    {generate_cache_key(p, SystemPrompt, effective_max_tokens(m), settings_temperature) :
        p \in Prompts, m \in MaxTokensArgs}

\* CacheManager.get and CacheManager.set as one step each: the value get
\* returns, and the entries after get and after set.
cache_get(entries, key, time) ==
    IF ~entries[key].present THEN None
    ELSE IF Expired(entries[key], time) THEN None
    ELSE entries[key].value

cache_after_get(entries, key, time) ==
    IF entries[key].present /\ Expired(entries[key], time)
    THEN [entries EXCEPT ![key] = NoEntry]
    ELSE entries

cache_after_set(entries, key, value, ttl, time) ==
    [entries EXCEPT ![key] =
        [present |-> TRUE, value |-> value,
         expires_at |-> time + (IF ttl /= 0 THEN ttl ELSE default_ttl)]]

\* `if self.use_cache and not skip_cache`
caching_whatever_the_opt_out(use_cache, skip_cache) == use_cache

caching(use_cache, skip_cache) == use_cache /\ ~skip_cache

\* `if cached_response:`
cached_response_usable(cached_response) == Truthy(cached_response)

IdleCall ==
    [pc |-> "idle", prompt |-> None, max_tokens |-> 0, skip_cache |-> FALSE,
     cache_key |-> NoKey]

\* What the observer of SpecLlm keeps of the step just taken by a call: its
\* phase (the start of the call, or the answer of the LLM), what the step did
\* (it returned a text, invoked the LLM or raised), the key of the request,
\* what the cache held for that key before the step (None: nothing, or an
\* expired entry), and the text returned if the step returned one.
NoStep ==
    [phase |-> "none", op |-> "none", skip_cache |-> FALSE, key |-> NoKey,
     held |-> None, text |-> None]

Step(phase, op, skip_cache, key, text) ==
    [phase |-> phase, op |-> op, skip_cache |-> skip_cache, key |-> key,
     held |-> cache_get(cache.entries, key, now), text |-> text]

InitLlm ==
    /\ store = NoSession
    /\ files = NoFiles
    /\ req = [r \in Reqs |-> IdleReq]
    /\ task = [t \in Tasks |-> IdleTask]
    /\ returned = NothingReturned
    /\ now = 0
    /\ cache = [entries |-> [k \in LlmKeys |-> NoEntry], lock |-> 0]
    /\ call = [c \in Calls |-> IdleCall]
    /\ \E use_cache \in BOOLEAN : unit = [use_cache |-> use_cache, last |-> NoStep]

TickLlm ==
    /\ now < MaxClock
    /\ now' = now + 1
    /\ unit' = [unit EXCEPT !.last = NoStep]
    /\ UNCHANGED <<sessionVars, cache, call>>

IdleCalls == {c \in Calls : call[c].pc = "idle"}
FreeCall(c) == c \in IdleCalls /\ \A d \in IdleCalls : c <= d

\* call_llm up to the await: the defaults, the cache key and the lookup.
call_llm(c, prompt, max_tokens, skip_cache) ==
    /\ FreeCall(c)
    /\ LET key == generate_cache_key(prompt, SystemPrompt,
                      effective_max_tokens(max_tokens), settings_temperature)
       IN  IF caching(unit.use_cache, skip_cache)
           THEN LET cached_response == cache_get(cache.entries, key, now)
                IN  /\ cache' = [cache EXCEPT
                                    !.entries = cache_after_get(cache.entries, key, now)]
                    /\ IF cached_response_usable(cached_response)
                       THEN /\ unit' = [unit EXCEPT !.last =
                                   Step("start", "return", skip_cache, key, cached_response)]
                            /\ UNCHANGED call
                       ELSE /\ call' = [call EXCEPT ![c] =
                                   [pc |-> "await_llm", prompt |-> prompt,
                                    max_tokens |-> effective_max_tokens(max_tokens),
                                    skip_cache |-> skip_cache, cache_key |-> key]]
                            /\ unit' = [unit EXCEPT !.last =
                                   Step("start", "invoke", skip_cache, key, None)]
           ELSE /\ call' = [call EXCEPT ![c] =
                       [pc |-> "await_llm", prompt |-> prompt,
                        max_tokens |-> effective_max_tokens(max_tokens),
                        skip_cache |-> skip_cache, cache_key |-> NoKey]]
                /\ unit' = [unit EXCEPT !.last =
                       Step("start", "invoke", skip_cache, key, None)]
                /\ UNCHANGED cache
    /\ UNCHANGED <<sessionVars, now>>

\* The LLM answers: the response is cached when caching applies and there is
\* a key, and returned.
call_llm_response(c, response) ==
    /\ call[c].pc = "await_llm"
    /\ LET key == generate_cache_key(call[c].prompt, SystemPrompt,
                      call[c].max_tokens, settings_temperature)
       IN  /\ IF /\ caching(unit.use_cache, call[c].skip_cache)
                 /\ call[c].cache_key /= NoKey
              THEN cache' = [cache EXCEPT !.entries =
                       cache_after_set(cache.entries, call[c].cache_key, response,
                                       cache_ttl, now)]
              ELSE UNCHANGED cache
           /\ unit' = [unit EXCEPT !.last =
                  Step("answer", "return", call[c].skip_cache, key, response)]
    /\ call' = [call EXCEPT ![c] = IdleCall]
    /\ UNCHANGED <<sessionVars, now>>

\* The LLM call fails: LLMServiceError is raised and nothing is cached.
call_llm_error(c) ==
    /\ call[c].pc = "await_llm"
    /\ LET key == generate_cache_key(call[c].prompt, SystemPrompt,
                      call[c].max_tokens, settings_temperature)
       IN  unit' = [unit EXCEPT !.last =
               Step("answer", "raise", call[c].skip_cache, key, None)]
    /\ call' = [call EXCEPT ![c] = IdleCall]
    /\ UNCHANGED <<sessionVars, now, cache>>

NextLlm ==
    \/ TickLlm
    \/ \E c \in Calls, prompt \in Prompts, max_tokens \in MaxTokensArgs,
          skip_cache \in BOOLEAN : call_llm(c, prompt, max_tokens, skip_cache)
    \/ \E c \in Calls, response \in ResponseTexts : call_llm_response(c, response)
    \/ \E c \in Calls : call_llm_error(c)

SpecLlm == InitLlm /\ [][NextLlm]_vars

\* C16: with caching enabled, a call_llm without opt-out that starts while
\* the cache holds an unexpired response for its request, whatever the text
\* of that response, returns that text and does not invoke the LLM.
C16_CachedResponseIsReturned ==
    ( /\ unit.use_cache
      /\ unit.last.phase = "start"
      /\ ~unit.last.skip_cache
      /\ unit.last.held /= None )
    => /\ unit.last.op = "return"
       /\ unit.last.text = unit.last.held

\* C17: a call_llm with skip_cache invokes the LLM even when the cache holds
\* an unexpired response for its request, and no step of it changes the
\* cache; with caching enabled, a call without opt-out that finds nothing in
\* the cache invokes the LLM, and when the LLM has answered it stores the
\* answer under the key of its request with the configured time-to-live.
C17_OptOutBypassesTheCache ==
    [][ /\ (unit'.last.phase /= "none" /\ unit'.last.skip_cache)
              => /\ cache' = cache
                 /\ unit'.last.phase = "start" => unit'.last.op = "invoke"
        /\ ( /\ unit.use_cache
             /\ unit'.last.phase = "start"
             /\ ~unit'.last.skip_cache
             /\ unit'.last.held = None )
              => unit'.last.op = "invoke"
        /\ ( /\ unit.use_cache
             /\ unit'.last.phase = "answer"
             /\ unit'.last.op = "return"
             /\ ~unit'.last.skip_cache )
              => cache'.entries[unit'.last.key] =
                    [present |-> TRUE, value |-> unit'.last.text,
                     expires_at |-> now + cache_ttl]
      ]_vars

\* A call with skip_cache has got an answer from the LLM while the cache held
\* another, unexpired response for its request, and the cache still holds it.
C17_Witness ==
    /\ unit.use_cache
    /\ unit.last.phase = "answer"
    /\ unit.last.op = "return"
    /\ unit.last.skip_cache
    /\ unit.last.held = "r1"
    /\ unit.last.text = "r2"
    /\ cache.entries[unit.last.key].value = "r1"
    /\ now > 0

(***************************************************************************)
(* SpecEnhance: the parts of the evaluation and optimization passes that   *)
(* work on the parsed answer of the LLM: the test of its shape, the        *)
(* clamping of the scores and the completion of the list of optimized      *)
(* agents.  Each is a function of its input; the initial state draws the   *)
(* input and the one step applies the function.                            *)
(***************************************************************************)
MaxAgents == 2     \* agents of the original configuration
MaxLen == 2        \* entries of a list in the answer of the LLM
ScoreMargin == 2   \* how far outside the range 0..10 the scores of the LLM go

\* Sequences over S of length at most n.
SeqsUpTo(S, n) == UNION {[1..k -> S] : k \in 0..n}

Range(seq) == {seq[i] : i \in 1..Len(seq)}

(* core/optimizer.py: _validate_optimized_agents *)
AgentIds == {"a1", "a2"}

\* models/agent.py: AgentConfig.agents, known by their agent_id; nothing in
\* the model or the normalization makes the agent_ids of a configuration
\* distinct.
OriginalConfigs == SeqsUpTo(AgentIds, MaxAgents) \ {<<>>}

\* An entry of the LLM's optimized_agents: a dict, whose agent_id is the id
\* of an agent, an id that no agent has, the empty string or absent (None),
\* or something that is not a dict.
OptimizedEntries ==
    {[type |-> "dict", agent_id |-> id] : id \in AgentIds \cup {"a9", "", None}}
    \cup {[type |-> "str", agent_id |-> None]}

validated_agent(agent_id) ==
    [agent_id |-> agent_id, changes_summary |-> "No changes specified"]

fallback_agent(agent_id) ==
    [agent_id |-> agent_id, changes_summary |-> "No optimization applied"]

\* The first loop: the entries that are dicts with the agent_id of an
\* original agent, in the order of the list.
RECURSIVE validated_agents(_, _)
validated_agents(optimized_agents, original_agent_ids) ==
    IF optimized_agents = <<>> THEN <<>>
    ELSE LET optimized_agent == Head(optimized_agents)
             rest == validated_agents(Tail(optimized_agents), original_agent_ids)
         IN  IF optimized_agent.type /= "dict" THEN rest
             ELSE IF ~Truthy(optimized_agent.agent_id)
                     \/ optimized_agent.agent_id \notin original_agent_ids THEN rest
             ELSE <<validated_agent(optimized_agent.agent_id)>> \o rest

\* The second loop: the original agents whose agent_id the first loop did
\* not produce, in the order of the configuration.
RECURSIVE missing_agents(_, _)
missing_agents(agents, optimized_agent_ids) ==
    IF agents = <<>> THEN <<>>
    ELSE LET rest == missing_agents(Tail(agents), optimized_agent_ids)
         IN  IF Head(agents) \notin optimized_agent_ids
             THEN <<fallback_agent(Head(agents))>> \o rest
             ELSE rest

validate_optimized_agents(optimized_agents, original_config) ==
    LET original_agent_ids == Range(original_config)
        validated == validated_agents(optimized_agents, original_agent_ids)
        optimized_agent_ids == {validated[i].agent_id : i \in 1..Len(validated)}
    IN  validated \o missing_agents(original_config, optimized_agent_ids)

(* core/evaluator.py: _enhance_evaluation_result *)
score_floor == 0
score_ceiling == 10
default_overall_score == 5

Min(a, b) == IF a <= b THEN a ELSE b
Max(a, b) == IF a >= b THEN a ELSE b

\* A score of the LLM's answer: absent, a number, or JSON null.
Scores == (score_floor - ScoreMargin)..(score_ceiling + ScoreMargin)
NoScore == [kind |-> "absent", value |-> 0]
ScoreValues ==
    {NoScore, [kind |-> "null", value |-> 0]}
    \cup {[kind |-> "number", value |-> v] : v \in Scores}

\* `max(0.0, min(10.0, float(score)))`
clamp_without_ceiling(score) == Max(score_floor, score)

clamp(score) == Max(score_floor, Min(score_ceiling, score))

\* The answer after the defaults of the required fields.
with_required_fields(evaluation_result) ==
    IF evaluation_result.overall_score.kind = "absent"
    THEN [evaluation_result EXCEPT
             !.overall_score = [kind |-> "number", value |-> default_overall_score]]
    ELSE evaluation_result

\* float(x) raises for a score that is not a number.
enhance_evaluation_raises(evaluation_result) ==
    LET result == with_required_fields(evaluation_result)
    IN  \/ result.overall_score.kind = "null"
        \/ \E i \in 1..Len(result.dimensions) : result.dimensions[i].kind = "null"

enhance_evaluation_result(evaluation_result) ==
    LET result == with_required_fields(evaluation_result)
    IN  [overall_score |->
             [kind |-> "number", value |-> clamp(result.overall_score.value)],
         dimensions |->
             [i \in 1..Len(result.dimensions) |->
                 IF result.dimensions[i].kind = "number"
                 THEN [kind |-> "number", value |-> clamp(result.dimensions[i].value)]
                 ELSE result.dimensions[i]]]

(* The shape of the parsed answer *)
\* What parse_json_response returned: a dict, a list (of which the type of
\* each element is kept) or a scalar.
ParsedResponses ==
    {[type |-> "dict", items |-> <<>>], [type |-> "scalar", items |-> <<>>]}
    \cup {[type |-> "list", items |-> items] :
             items \in SeqsUpTo({"dict", "scalar", "list"}, MaxLen)}

\* evaluate_context hands the parsed answer to _enhance_evaluation_result,
\* whose item assignments raise TypeError for anything that is not a dict.
evaluate_context_accepts(parsed) == parsed.type = "dict"

\* optimize_context takes the first element of a non-empty list when that
\* element is a dict, and raises ValueError for any other list and for
\* anything else that is not a dict.
optimize_context_accepts(parsed) ==
    IF parsed.type = "list"
    THEN parsed.items /= <<>> /\ parsed.items[1] = "dict"
    ELSE parsed.type = "dict"

(* The failures of a pass *)
\* What llm_service.call_llm does: it returns the answer, or raises
\* LLMServiceError, as LLMService.call_llm does for every failure of the API
\* call, or another exception, as a stand-in of the service can.
LlmOutcomes == {"ok", "LLMServiceError", "Exception"}

\* The text of the answer: JSON, a text that json-repair turns into JSON,
\* and a text whose repair json.loads rejects as well.
AnswerTexts == {"json", "repairable", "irreparable"}

\* parse_json_response: json.loads, then, when that raised JSONDecodeError,
\* repair_json and json.loads once; every exception becomes LLMServiceError.
parse_json_response(text) ==
    [error |-> IF text = "irreparable" THEN "LLMServiceError" ELSE None,
     repairs |-> IF text = "json" THEN 0 ELSE 1]

\* The exception the body of evaluate_context raises, None when it raises
\* none.
evaluate_context_raises(pass) ==
    IF pass.llm /= "ok" THEN pass.llm
    ELSE IF parse_json_response(pass.text).error /= None
    THEN parse_json_response(pass.text).error
    ELSE IF ~evaluate_context_accepts(pass.parsed) THEN "TypeError"
    ELSE IF enhance_evaluation_raises(pass.evaluation) THEN "TypeError"
    ELSE None

\* The exception the body of optimize_context raises, None when it raises
\* none.
optimize_context_raises(pass) ==
    IF pass.llm /= "ok" THEN pass.llm
    ELSE IF parse_json_response(pass.text).error /= None
    THEN parse_json_response(pass.text).error
    ELSE IF ~optimize_context_accepts(pass.parsed) THEN "ValueError"
    ELSE pass.enhancer

\* The handler re-raising what it caught, as the inner handlers do.
context_reraise(exc) == exc

\* `except Exception as e: raise LLMServiceError(...)`
context_except(exc) == "LLMServiceError"

(* The inputs and the steps *)
NoEvaluation == [overall_score |-> NoScore, dimensions |-> <<>>]
NoParsed == [type |-> "scalar", items |-> <<>>]

Input(op, original, optimized, evaluation, parsed) ==
    [op |-> op, done |-> "no", original |-> original, optimized |-> optimized,
     evaluation |-> evaluation, parsed |-> parsed,
     llm |-> "ok", text |-> "json", enhancer |-> None,
     agents |-> <<>>, enhanced |-> NoEvaluation, outcome |-> None, raised |-> None]

\* A pass with the given behaviour of the LLM, text of its answer, value
\* parsed from it, scores in it, and exception of the optimization enhancer.
PassInput(llm, text, parsed, evaluation, enhancer) ==
    [Input("pass", <<>>, <<>>, evaluation, parsed) EXCEPT
        !.llm = llm, !.text = text, !.enhancer = enhancer]

InitEnhance ==
    /\ store = NoSession
    /\ files = NoFiles
    /\ req = [r \in Reqs |-> IdleReq]
    /\ task = [t \in Tasks |-> IdleTask]
    /\ returned = NothingReturned
    /\ now = 0
    /\ cache = NoCache
    /\ call = NoCalls
    /\ \/ \E original \in OriginalConfigs,
             optimized \in SeqsUpTo(OptimizedEntries, MaxLen) :
             unit = Input("agents", original, optimized, NoEvaluation, NoParsed)
       \/ \E overall_score \in ScoreValues,
             dimensions \in SeqsUpTo(ScoreValues, MaxLen) :
             unit = Input("scores", <<>>, <<>>,
                          [overall_score |-> overall_score, dimensions |-> dimensions],
                          NoParsed)
       \/ \E parsed \in ParsedResponses :
             unit = Input("shape", <<>>, <<>>, NoEvaluation, parsed)
       \/ \E llm \in LlmOutcomes, text \in AnswerTexts, parsed \in ParsedResponses,
             overall_score \in {NoScore, [kind |-> "null", value |-> 0]},
             enhancer \in {None, "TypeError"} :
             unit = PassInput(llm, text, parsed,
                              [overall_score |-> overall_score, dimensions |-> <<>>],
                              enhancer)

\* optimization_result["optimized_agents"] = self._validate_optimized_agents(...)
enhance_optimization_result ==
    /\ unit.op = "agents"
    /\ unit.done = "no"
    /\ unit' = [unit EXCEPT
                   !.done = "validate_optimized_agents",
                   !.agents = validate_optimized_agents(unit.optimized, unit.original)]
    /\ UNCHANGED <<sessionVars, now, cache, call>>

\* evaluation_result = self._enhance_evaluation_result(...)
enhance_evaluation ==
    /\ unit.op = "scores"
    /\ unit.done = "no"
    /\ IF enhance_evaluation_raises(unit.evaluation)
       THEN unit' = [unit EXCEPT !.done = "enhance_evaluation_result",
                                 !.outcome = "LLMServiceError"]
       ELSE unit' = [unit EXCEPT !.done = "enhance_evaluation_result",
                                 !.outcome = "ok",
                                 !.enhanced = enhance_evaluation_result(unit.evaluation)]
    /\ UNCHANGED <<sessionVars, now, cache, call>>

\* evaluate_context; for a shape, from the parsed answer on.
evaluate_context ==
    /\ unit.op \in {"shape", "pass"}
    /\ unit.done = "no"
    /\ LET exc == evaluate_context_raises(unit)
       IN  unit' = [unit EXCEPT
                       !.done = "evaluate_context",
                       !.raised = exc,
                       !.outcome = IF exc = None THEN "ok" ELSE context_except(exc)]
    /\ UNCHANGED <<sessionVars, now, cache, call>>

\* optimize_context; for a shape, from the parsed answer on.
optimize_context ==
    /\ unit.op \in {"shape", "pass"}
    /\ unit.done = "no"
    /\ LET exc == optimize_context_raises(unit)
       IN  unit' = [unit EXCEPT
                       !.done = "optimize_context",
                       !.raised = exc,
                       !.outcome = IF exc = None THEN "ok" ELSE context_except(exc)]
    /\ UNCHANGED <<sessionVars, now, cache, call>>

NextEnhance ==
    \/ enhance_optimization_result
    \/ enhance_evaluation
    \/ evaluate_context
    \/ optimize_context

SpecEnhance == InitEnhance /\ [][NextEnhance]_vars

\* C18: for every original configuration and every optimized_agents list of
\* the LLM, the enhanced list has exactly one entry per original agent
\* identifier: every original identifier appears, no other identifier
\* appears, and none appears twice.
C18_OneEntryPerOriginalAgent ==
    unit.done = "validate_optimized_agents"
    => /\ {unit.agents[i].agent_id : i \in 1..Len(unit.agents)} = Range(unit.original)
       /\ \A i, j \in 1..Len(unit.agents) :
             unit.agents[i].agent_id = unit.agents[j].agent_id => i = j

\* C19: after evaluation enhancement the overall score and every dimension
\* score present lie in 0..10: a number below 0 has become 0, one above 10
\* has become 10 and one inside the range is kept.
ClampedFrom(output, input) ==
    /\ output.kind = "number"
    /\ output.value \in 0..10
    /\ input.value < 0 => output.value = 0
    /\ input.value > 10 => output.value = 10
    /\ input.value \in 0..10 => output.value = input.value

SingleObject(parsed) ==
    \/ parsed.type = "dict"
    \/ parsed.type = "list" /\ Len(parsed.items) = 1 /\ parsed.items[1] = "dict"

C20_OnlyObjectOrSingletonAccepted ==
    (unit.op = "shape" /\ unit.done \in {"evaluate_context", "optimize_context"})
    => (unit.outcome = "ok" <=> SingleObject(unit.parsed))

MaxItems == 2      \* elements of a list of agents or of messages
MaxToolCalls == 3  \* tool calls of one message

AgentKeys ==
    {"agent_id", "id", "agent_name", "name", "system_prompt", "prompt", "system",
     "tools", "version", "metadata", "agents"}

\* A dict with the given keys, `value` giving the values of its keys.
Dict(keys, value) ==
    [json |-> "dict", items |-> <<>>, keys |-> keys,
     agent_id |-> IF "agent_id" \in keys THEN value.agent_id ELSE None,
     id |-> IF "id" \in keys THEN value.id ELSE None,
     agent_name |-> IF "agent_name" \in keys THEN value.agent_name ELSE None,
     name |-> IF "name" \in keys THEN value.name ELSE None,
     system_prompt |-> IF "system_prompt" \in keys THEN value.system_prompt ELSE None,
     prompt |-> IF "prompt" \in keys THEN value.prompt ELSE None,
     system |-> IF "system" \in keys THEN value.system ELSE None,
     tools |-> IF "tools" \in keys THEN value.tools ELSE <<>>,
     version |-> IF "version" \in keys THEN value.version ELSE None,
     metadata |-> IF "metadata" \in keys THEN value.metadata ELSE None,
     agents |-> IF "agents" \in keys THEN value.agents ELSE <<>>,
     others |-> value.others]

NoValues ==
    [agent_id |-> None, id |-> None, agent_name |-> None, name |-> None,
     system_prompt |-> None, prompt |-> None, system |-> None, tools |-> <<>>,
     version |-> None, metadata |-> None, agents |-> <<>>, others |-> <<>>]

EmptyDict == Dict({}, NoValues)
List(items) == [EmptyDict EXCEPT !.json = "list", !.items = items]
Scalar == [EmptyDict EXCEPT !.json = "other"]

\* The agent objects of the uploads: any set of the keys the normalization
\* looks at, with one value per key, and null as well for agent_id and
\* system_prompt.  `tools` holds the names of its tools; `others` holds the
\* values of the keys the normalization does not name.
AgentObjects ==
    {Dict(keys, [NoValues EXCEPT
                    !.agent_id = agent_id, !.id = "a2",
                    !.agent_name = "n1", !.name = "n2",
                    !.system_prompt = system_prompt, !.prompt = "p2", !.system = "p3",
                    !.tools = <<"t1">>, !.version = "2.0", !.metadata = "m"]) :
        keys \in SUBSET AgentKeys, agent_id \in {"a1", None}, system_prompt \in {"p1", None}}

\* {"agents": [...]} with the given agents.
Standard(agents) == Dict({"agents"}, [NoValues EXCEPT !.agents = agents])

\* A dict none of whose keys the normalization names, with the given values.
Mapping(values) == Dict({}, [NoValues EXCEPT !.others = values])

\* `raise ValidationError(...)`, and the exceptions that `except Exception`
\* turns into ValidationError.
NoConfig == [agents |-> <<>>, version |-> None, metadata |-> None]
Raised(error) == [error |-> error, config |-> NoConfig]
Returned(config) == [error |-> None, config |-> config]

agent_like(v) == v.json = "dict" /\ ("agent_id" \in v.keys \/ "id" \in v.keys)

RECURSIVE agent_like_values(_)
agent_like_values(values) ==
    IF values = <<>> THEN <<>>
    ELSE IF agent_like(Head(values))
         THEN <<Head(values)>> \o agent_like_values(Tail(values))
         ELSE agent_like_values(Tail(values))

\* The format inference without its test for a single agent with agent_id.
normalize_agents_config_format_without_agent_id(data) ==
    IF data.json = "list" THEN [error |-> None, agents |-> data.items]
    ELSE IF data.json = "dict"
    THEN IF "agents" \in data.keys THEN [error |-> None, agents |-> data.agents]
         ELSE IF data.keys \cap {"id", "name", "agent_name"} /= {}
              THEN [error |-> None, agents |-> <<data>>]
         ELSE IF agent_like_values(data.others) /= <<>>
              THEN [error |-> None, agents |-> agent_like_values(data.others)]
         ELSE [error |-> "ValidationError", agents |-> <<>>]
    ELSE [error |-> "ValidationError", agents |-> <<>>]

\* _normalize_agents_config_format followed by config_data.get("agents", []):
\* the list of candidate agents, or the error raised.
normalize_agents_config_format(data) ==
    IF data.json = "list" THEN [error |-> None, agents |-> data.items]
    ELSE IF data.json = "dict"
    THEN IF "agents" \in data.keys THEN [error |-> None, agents |-> data.agents]
         ELSE IF "agent_id" \in data.keys THEN [error |-> None, agents |-> <<data>>]
         ELSE IF data.keys \cap {"id", "name", "agent_name"} /= {}
              THEN [error |-> None, agents |-> <<data>>]
         ELSE IF agent_like_values(data.others) /= <<>>
              THEN [error |-> None, agents |-> agent_like_values(data.others)]
         ELSE [error |-> "ValidationError", agents |-> <<>>]
    ELSE [error |-> "ValidationError", agents |-> <<>>]

\* The loop over source_fields: the value of the first of the keys that the
\* agent has, None when it has none of them.
RECURSIVE first_present(_, _)
first_present(agent, source_fields) ==
    IF source_fields = <<>> THEN None
    ELSE IF Head(source_fields) \in agent.keys THEN agent[Head(source_fields)]
    ELSE first_present(agent, Tail(source_fields))

agent_fields_raise(agent) ==
    \/ first_present(agent, <<"agent_id", "id">>) = None
    \/ first_present(agent, <<"system_prompt", "prompt", "system">>) = None

\* _normalize_agent_fields, when it does not raise.
normalize_agent_fields(agent) ==
    LET agent_id == first_present(agent, <<"agent_id", "id">>)
        agent_name == first_present(agent, <<"agent_name", "name">>)
    IN  [agent_id |-> agent_id,
         agent_name |-> IF agent_name /= None THEN agent_name ELSE agent_id,
         system_prompt |-> first_present(agent, <<"system_prompt", "prompt", "system">>),
         tools |-> agent.tools]

\* models/agent.py: Agent(**normalized_agent).  The normalized agent has no
\* version and no metadata, so the defaults of the model apply.
Agent(normalized_agent) ==
    [agent_id |-> normalized_agent.agent_id,
     agent_name |-> normalized_agent.agent_name,
     version |-> "1.0",
     system_prompt |-> normalized_agent.system_prompt,
     tools |-> normalized_agent.tools,
     metadata |-> None]

\* models/agent.py: AgentTool requires a name; a tool is known by its name
\* and a tool without one has the name None.
agent_tools_invalid(tools) == \E i \in 1..Len(tools) : tools[i] = None

\* models/agent.py: AgentConfig(agents=...), a list of agents of any length.
AgentConfigOf(normalized_agents) ==
    [agents |-> [i \in 1..Len(normalized_agents) |-> Agent(normalized_agents[i])],
     version |-> "1.0",
     metadata |-> None]

validate_agents_config(data) ==
    LET config_data == normalize_agents_config_format(data)
        agents == config_data.agents
    IN  IF config_data.error /= None THEN Raised("ValidationError")
        ELSE IF \E i \in 1..Len(agents) :
                   \/ agents[i].json /= "dict"
                   \/ agent_fields_raise(agents[i])
                   \/ agent_tools_invalid(agents[i].tools)
             THEN Raised("ValidationError")
        ELSE Returned(AgentConfigOf(
                 [i \in 1..Len(agents) |-> normalize_agent_fields(agents[i])]))
(* validate_messages_dataset *)
MessageKeys ==
    {"id", "content", "type", "role", "name", "example", "tool_call_id",
     "tool_name", "tool_calls"}

\* The keys of a dumped Message that the normalization does not look at.
UnreadMessageKeys == {"invalid_tool_calls", "usage_metadata", "artifact", "status"}

\* models/message.py: MessageType
MessageType == {"human", "ai", "tool"}

\* The values of `role` that role_mapping names, and one it does not.
Roles == {"user", "assistant", "ai", "system", "tool", "function", "planner"}

\* The values of `type`: the members of valid_types, and one that is none.
Types == {"human", "ai", "tool", "system", "chat"}

NoMessageValues ==
    [id |-> None, content |-> None, type |-> None, role |-> None, name |-> None,
     example |-> FALSE, tool_call_id |-> None, tool_name |-> None, tool_calls |-> <<>>,
     invalid_tool_calls |-> "[]", usage_metadata |-> None, artifact |-> None,
     status |-> None]

MessageDict(keys, value) ==
    [json |-> "dict", keys |-> keys,
     id |-> IF "id" \in keys THEN value.id ELSE None,
     content |-> IF "content" \in keys THEN value.content ELSE None,
     type |-> IF "type" \in keys THEN value.type ELSE None,
     role |-> IF "role" \in keys THEN value.role ELSE None,
     name |-> IF "name" \in keys THEN value.name ELSE None,
     example |-> IF "example" \in keys THEN value.example ELSE FALSE,
     tool_call_id |-> IF "tool_call_id" \in keys THEN value.tool_call_id ELSE None,
     tool_name |-> IF "tool_name" \in keys THEN value.tool_name ELSE None,
     tool_calls |-> IF "tool_calls" \in keys THEN value.tool_calls ELSE <<>>,
     invalid_tool_calls |->
         IF "invalid_tool_calls" \in keys THEN value.invalid_tool_calls ELSE "[]",
     usage_metadata |-> IF "usage_metadata" \in keys THEN value.usage_metadata ELSE None,
     artifact |-> IF "artifact" \in keys THEN value.artifact ELSE None,
     status |-> IF "status" \in keys THEN value.status ELSE None]

NotAMessage == [MessageDict({}, NoMessageValues) EXCEPT !.json = "other"]

(* _normalize_tool_calls *)
ToolCallKeys == {"name", "function", "args", "arguments", "id", "type"}
FunctionKeys == {"name", "arguments", "id"}

\* The value of an `args`: a JSON object, a JSON string, or a JSON number.
ArgsObject == [json |-> "dict", text |-> "{q: 1}"]
NoArgs == [json |-> "dict", text |-> "{}"]

\* The strings a `function.arguments` can be: the text of a JSON object, the
\* text of a JSON number, and a text that is no JSON.
ArgumentTexts == {"{\"q\": 1}", "5", "q=1"}

json_loads_raises(args_str) == args_str = "q=1"
json_loads(args_str) ==
    IF args_str = "5" THEN [json |-> "number", text |-> "5"] ELSE ArgsObject
raw_arguments(args_str) == [json |-> "dict", text |-> args_str]

NoFunction == [keys |-> {}, name |-> None, arguments |-> "5", id |-> None]
Function(keys, arguments) ==
    [keys |-> keys,
     name |-> IF "name" \in keys THEN "f1" ELSE None,
     arguments |-> IF "arguments" \in keys THEN arguments ELSE "5",
     id |-> IF "id" \in keys THEN "fid" ELSE None]

NoToolCallValues ==
    [name |-> None, function |-> NoFunction, args |-> NoArgs, arguments |-> NoArgs,
     id |-> None, type |-> None]

ToolCallDict(keys, value) ==
    [json |-> "dict", keys |-> keys,
     name |-> IF "name" \in keys THEN value.name ELSE None,
     function |-> IF "function" \in keys THEN value.function ELSE NoFunction,
     args |-> IF "args" \in keys THEN value.args ELSE NoArgs,
     arguments |-> IF "arguments" \in keys THEN value.arguments ELSE NoArgs,
     id |-> IF "id" \in keys THEN value.id ELSE None,
     type |-> IF "type" \in keys THEN value.type ELSE None]

NotAToolCall == [ToolCallDict({}, NoToolCallValues) EXCEPT !.json = "other"]

\* Every tool call object over the keys _normalize_tool_calls looks at.
ToolCallObjects ==
    {ToolCallDict(keys, [name |-> "t1", function |-> Function(fkeys, arguments),
                         args |-> ArgsObject, arguments |-> ArgsObject,
                         id |-> "x1", type |-> "function"]) :
        keys \in SUBSET ToolCallKeys, fkeys \in SUBSET FunctionKeys,
        arguments \in ArgumentTexts}
    \cup {NotAToolCall}

\* The synthesized id, counting from one.
call_id_from_one(n) == "call_" \o ToString(n + 1)

\* "call_{n}"
call_id(n) == "call_" \o ToString(n)

has_name(tool_call) ==
    \/ "name" \in tool_call.keys
    \/ "function" \in tool_call.keys /\ "name" \in tool_call.function.keys

tool_call_name(tool_call) ==
    IF "name" \in tool_call.keys THEN tool_call.name ELSE tool_call.function.name

tool_call_args(tool_call) ==
    IF "args" \in tool_call.keys THEN tool_call.args
    ELSE IF "arguments" \in tool_call.keys THEN tool_call.arguments
    ELSE IF "function" \in tool_call.keys /\ "arguments" \in tool_call.function.keys
    THEN IF json_loads_raises(tool_call.function.arguments)
         THEN raw_arguments(tool_call.function.arguments)
         ELSE json_loads(tool_call.function.arguments)
    ELSE NoArgs

tool_call_id(tool_call, normalized_tool_calls) ==
    IF "id" \in tool_call.keys THEN tool_call.id
    ELSE IF "function" \in tool_call.keys /\ "id" \in tool_call.function.keys
    THEN tool_call.function.id
    ELSE call_id(Len(normalized_tool_calls))

\* The loop of _normalize_tool_calls, from the tool calls still to come and
\* the list built so far.
RECURSIVE normalize_tool_calls_from(_, _)
normalize_tool_calls_from(tool_calls, normalized_tool_calls) ==
    IF tool_calls = <<>> THEN normalized_tool_calls
    ELSE LET tool_call == Head(tool_calls)
         IN  IF tool_call.json /= "dict" \/ ~has_name(tool_call)
             THEN normalize_tool_calls_from(Tail(tool_calls), normalized_tool_calls)
             ELSE normalize_tool_calls_from(
                      Tail(tool_calls),
                      Append(normalized_tool_calls,
                             [name |-> tool_call_name(tool_call),
                              args |-> tool_call_args(tool_call),
                              id |-> tool_call_id(tool_call, normalized_tool_calls)]))

normalize_tool_calls(tool_calls) == normalize_tool_calls_from(tool_calls, <<>>)

(* _normalize_message_fields *)
role_mapping(role) ==
    CASE role = "user" -> "human"
      [] role = "assistant" -> "ai"
      [] role = "ai" -> "ai"
      [] role = "system" -> "system"
      [] role = "tool" -> "tool"
      [] role = "function" -> "tool"
      [] OTHER -> "ai"

valid_types == {"human", "ai", "tool", "system"}

message_type(message) ==
    IF "type" \in message.keys THEN message.type ELSE role_mapping(message.role)

message_fields_raise(message) ==
    \/ "type" \notin message.keys /\ "role" \notin message.keys
    \/ message_type(message) \notin valid_types

\* The name of the normalized message; None when it has no `name` key.
message_name(message) ==
    IF "name" \in message.keys THEN message.name
    ELSE IF message_type(message) = "ai" /\ "role" \in message.keys
            /\ message.role /= "assistant"
    THEN message.role
    ELSE IF message_type(message) = "tool" /\ "tool_name" \in message.keys
    THEN message.tool_name
    ELSE None

\* _normalize_message_fields, when it does not raise.  `index` is the
\* 0-based position of the message.
normalize_message_fields(message, index) ==
    [id |-> IF "id" \in message.keys THEN message.id ELSE "msg_" \o ToString(index),
     content |-> IF "content" \in message.keys THEN message.content ELSE "",
     type |-> message_type(message),
     name |-> message_name(message),
     example |-> IF "example" \in message.keys THEN message.example ELSE FALSE,
     tool_call_id |->
         IF "tool_call_id" \in message.keys THEN message.tool_call_id ELSE None,
     tool_calls |->
         IF "tool_calls" \in message.keys
         THEN normalize_tool_calls(message.tool_calls) ELSE <<>>]

\* models/message.py: ToolCall(**normalized_tool_call); the normalized tool
\* call has no type, so the default of the model applies.
ToolCall(normalized_tool_call) ==
    [name |-> normalized_tool_call.name, args |-> normalized_tool_call.args,
     id |-> normalized_tool_call.id, type |-> "tool_call"]

tool_call_invalid(normalized_tool_call) ==
    \/ normalized_tool_call.name = None
    \/ normalized_tool_call.id = None
    \/ normalized_tool_call.args.json /= "dict"

\* models/message.py: Message(**normalized_message); the normalized message
\* has none of invalid_tool_calls, usage_metadata, artifact and status, so
\* the defaults of the model apply.
Message(normalized_message) ==
    [content |-> normalized_message.content,
     type |-> normalized_message.type,
     name |-> normalized_message.name,
     id |-> normalized_message.id,
     example |-> normalized_message.example,
     tool_calls |-> [i \in 1..Len(normalized_message.tool_calls) |->
                        ToolCall(normalized_message.tool_calls[i])],
     invalid_tool_calls |-> "[]",
     usage_metadata |-> None,
     tool_call_id |-> normalized_message.tool_call_id,
     artifact |-> None,
     status |-> None]

\* What makes pydantic reject the normalized message: a type that is no
\* MessageType, a null id or content, a tool call it rejects.
message_invalid(normalized_message) ==
    \/ normalized_message.type \notin MessageType
    \/ normalized_message.id = None
    \/ normalized_message.content = None
    \/ \E i \in 1..Len(normalized_message.tool_calls) :
          tool_call_invalid(normalized_message.tool_calls[i])

(* _normalize_messages_format *)
DatasetKeys == {"messages", "conversations", "metadata"}

NoDatasetValues == [messages |-> <<>>, conversations |-> <<>>, metadata |-> None]

\* A dataset dict; `conversations` is a list of lists of messages, an empty
\* one standing for a conversation without a `messages` key.
DatasetDict(keys, value) ==
    [json |-> "dict", items |-> <<>>, keys |-> keys,
     messages |-> IF "messages" \in keys THEN value.messages ELSE <<>>,
     conversations |-> IF "conversations" \in keys THEN value.conversations ELSE <<>>,
     metadata |-> IF "metadata" \in keys THEN value.metadata ELSE None]

MessageList(items) == [DatasetDict({}, NoDatasetValues) EXCEPT !.json = "list", !.items = items]
NotADataset == [DatasetDict({}, NoDatasetValues) EXCEPT !.json = "other"]
StandardDataset(messages) ==
    DatasetDict({"messages"}, [NoDatasetValues EXCEPT !.messages = messages])
Conversations(conversations) ==
    DatasetDict({"conversations"}, [NoDatasetValues EXCEPT !.conversations = conversations])

RECURSIVE all_messages(_)
all_messages(conversations) ==
    IF conversations = <<>> THEN <<>>
    ELSE Head(conversations) \o all_messages(Tail(conversations))

normalize_messages_format(data) ==
    IF data.json = "list" THEN [error |-> None, messages |-> data.items]
    ELSE IF data.json = "dict"
    THEN IF "messages" \in data.keys THEN [error |-> None, messages |-> data.messages]
         ELSE IF "conversations" \in data.keys
              THEN [error |-> None, messages |-> all_messages(data.conversations)]
         ELSE [error |-> "ValidationError", messages |-> <<>>]
    ELSE [error |-> "ValidationError", messages |-> <<>>]

NoDataset == [messages |-> <<>>, metadata |-> None]
RaisedDataset(error) == [error |-> error, dataset |-> NoDataset]
ReturnedDataset(dataset) == [error |-> None, dataset |-> dataset]

\* models/message.py: MessageDataset(messages=...)
MessageDatasetOf(normalized_messages) ==
    [messages |-> [i \in 1..Len(normalized_messages) |-> Message(normalized_messages[i])],
     metadata |-> None]

validate_messages_dataset(data) ==
    LET messages_data == normalize_messages_format(data)
        messages == messages_data.messages
        normalized_messages ==
            [i \in 1..Len(messages) |-> normalize_message_fields(messages[i], i - 1)]
    IN  IF messages_data.error /= None THEN RaisedDataset("ValidationError")
        ELSE IF messages = <<>> THEN RaisedDataset("ValidationError")
        ELSE IF \E i \in 1..Len(messages) :
                   \/ messages[i].json /= "dict"
                   \/ message_fields_raise(messages[i])
             THEN RaisedDataset("ValidationError")
        ELSE IF \E i \in 1..Len(messages) : message_invalid(normalized_messages[i])
             THEN RaisedDataset("ValidationError")
        ELSE ReturnedDataset(MessageDatasetOf(normalized_messages))
(* model_dump() of the canonical models *)
dump_agent(agent) ==
    Dict({"agent_id", "agent_name", "version", "system_prompt", "tools", "metadata"},
         [NoValues EXCEPT
             !.agent_id = agent.agent_id, !.agent_name = agent.agent_name,
             !.version = agent.version, !.system_prompt = agent.system_prompt,
             !.tools = agent.tools, !.metadata = agent.metadata])

dump_agent_config(config) ==
    Dict({"agents", "version", "metadata"},
         [NoValues EXCEPT
             !.agents = [i \in 1..Len(config.agents) |-> dump_agent(config.agents[i])],
             !.version = config.version, !.metadata = config.metadata])

dump_tool_call(tool_call) ==
    ToolCallDict({"name", "args", "id", "type"},
                 [NoToolCallValues EXCEPT
                     !.name = tool_call.name, !.args = tool_call.args,
                     !.id = tool_call.id, !.type = tool_call.type])

dump_message(message) ==
    MessageDict({"content", "type", "name", "id", "example", "tool_calls",
                 "tool_call_id"} \cup UnreadMessageKeys,
                [NoMessageValues EXCEPT
                    !.content = message.content, !.type = message.type,
                    !.name = message.name, !.id = message.id,
                    !.example = message.example,
                    !.tool_calls = [i \in 1..Len(message.tool_calls) |->
                                       dump_tool_call(message.tool_calls[i])],
                    !.invalid_tool_calls = message.invalid_tool_calls,
                    !.usage_metadata = message.usage_metadata,
                    !.tool_call_id = message.tool_call_id,
                    !.artifact = message.artifact,
                    !.status = message.status])

dump_message_dataset(dataset) ==
    DatasetDict({"messages", "metadata"},
                [NoDatasetValues EXCEPT
                    !.messages = [i \in 1..Len(dataset.messages) |->
                                     dump_message(dataset.messages[i])],
                    !.metadata = dataset.metadata])

(* The canonical values *)
\* models/agent.py: Agent, with the tools known by their names.
CanonicalAgents ==
    [agent_id : {"a1", "a2"}, agent_name : {"a1", "n1"}, version : {"1.0", "2.0"},
     system_prompt : {"p1"}, tools : {<<>>, <<"t1">>}, metadata : {None, "m"}]

\* models/agent.py: AgentConfig
CanonicalConfigs ==
    [agents : SeqsUpTo(CanonicalAgents, MaxItems), version : {"1.0", "2.0", None},
     metadata : {None, "m"}]

\* models/message.py: ToolCall
CanonicalToolCalls ==
    [name : {"t1"}, args : {ArgsObject}, id : {"x1"}, type : {"tool_call", "function"}]

\* models/message.py: Message
CanonicalMessages ==
    [content : {"c"}, type : MessageType, name : {None, "a1"}, id : {"m1"},
     example : BOOLEAN, tool_calls : SeqsUpTo(CanonicalToolCalls, 1),
     invalid_tool_calls : {"[]", "[{}]"}, usage_metadata : {None, "u"},
     tool_call_id : {None, "x1"}, artifact : {None, "art"}, status : {None, "success"}]

\* Messages with the defaults of every field the normalization drops.
PlainMessages ==
    [content : {"c"}, type : {"human", "ai"}, name : {None}, id : {"m1", "m2"},
     example : {FALSE}, tool_calls : {<<>>}, invalid_tool_calls : {"[]"},
     usage_metadata : {None}, tool_call_id : {None}, artifact : {None},
     status : {None}]

\* models/message.py: MessageDataset
CanonicalDatasets ==
    [messages : {<<m>> : m \in CanonicalMessages} \cup SeqsUpTo(PlainMessages, MaxItems),
     metadata : {None, "m"}]

(* The uploads *)
\* One agent object in each of the three formats, and the other formats.
AgentForms == {"standard", "list", "single"}

InForm(form, agent) ==
    CASE form = "standard" -> Standard(<<agent>>)
      [] form = "list" -> List(<<agent>>)
      [] form = "single" -> agent

PlainAgents ==
    {Dict({"agent_id", "system_prompt"},
          [NoValues EXCEPT !.agent_id = id, !.system_prompt = "p1"]) : id \in {"a1", "a2"}}
    \cup {Dict({"id"}, [NoValues EXCEPT !.id = "a2"]), Scalar}

OtherAgentsData ==
    {Standard(agents) : agents \in SeqsUpTo(PlainAgents, MaxItems)}
    \cup {List(agents) : agents \in SeqsUpTo(PlainAgents, MaxItems)}
    \cup {Mapping(agents) : agents \in SeqsUpTo(PlainAgents, MaxItems)}
    \cup {Scalar}

\* The message objects: any set of the keys the normalization looks at.
MessageObjects ==
    {MessageDict(keys, [NoMessageValues EXCEPT
                           !.id = "m1", !.content = "c", !.type = type, !.role = role,
                           !.name = "a1", !.example = TRUE, !.tool_call_id = "x1",
                           !.tool_name = "t1",
                           !.tool_calls = <<ToolCallDict({"name"}, [NoToolCallValues EXCEPT !.name = "t1"])>>]) :
        keys \in SUBSET MessageKeys, type \in Types, role \in Roles}

RoleMessage(role) ==
    MessageDict({"role", "content"},
                [NoMessageValues EXCEPT !.role = role, !.content = "c"])

PlainMessageObjects == {RoleMessage("user"), RoleMessage("assistant"), NotAMessage}

OtherMessagesData ==
    {StandardDataset(messages) : messages \in SeqsUpTo(PlainMessageObjects, MaxItems)}
    \cup {MessageList(messages) : messages \in SeqsUpTo(PlainMessageObjects, MaxItems)}
    \cup {Conversations(conversations) :
             conversations \in SeqsUpTo(SeqsUpTo(PlainMessageObjects, 1), MaxItems)}
    \cup {DatasetDict({}, NoDatasetValues), NotADataset}

\* The tool calls of a list: one named by `name`, one named by
\* `function.name`, each without an id, one with an id, one with a
\* `function.id`, one without a name, and one that is no dict.
ToolCallSamples ==
    {ToolCallDict({"name"}, [NoToolCallValues EXCEPT !.name = "t1"]),
     ToolCallDict({"function"}, [NoToolCallValues EXCEPT !.function = Function({"name"}, "5")]),
     ToolCallDict({"name", "id"}, [NoToolCallValues EXCEPT !.name = "t1", !.id = "x1"]),
     ToolCallDict({"name", "function"},
                  [NoToolCallValues EXCEPT !.name = "t1", !.function = Function({"id"}, "5")]),
     ToolCallDict({"args"}, [NoToolCallValues EXCEPT !.args = ArgsObject]),
     NotAToolCall}

ToolCallLists ==
    SeqsUpTo(ToolCallSamples, MaxToolCalls) \cup {<<tool_call>> : tool_call \in ToolCallObjects}

AssistantMessage(tool_calls) ==
    MessageDict({"role", "tool_calls"},
                [NoMessageValues EXCEPT !.role = "assistant", !.tool_calls = tool_calls])

(* The inputs and the steps *)
NormalizeInput(op, form, agents_data, messages_data, config, dataset) ==
    [op |-> op, done |-> "no", form |-> form,
     agents_data |-> agents_data, messages_data |-> messages_data,
     config |-> config, dataset |-> dataset,
     agents_config |-> Returned(NoConfig),
     messages_dataset |-> ReturnedDataset(NoDataset)]

InitNormalize ==
    /\ store = NoSession
    /\ files = NoFiles
    /\ req = [r \in Reqs |-> IdleReq]
    /\ task = [t \in Tasks |-> IdleTask]
    /\ returned = NothingReturned
    /\ now = 0
    /\ cache = NoCache
    /\ call = NoCalls
    /\ \/ \E form \in AgentForms, agent \in AgentObjects :
             unit = NormalizeInput("agents", form, InForm(form, agent), NotADataset,
                                   NoConfig, NoDataset)
       \/ \E data \in OtherAgentsData :
             unit = NormalizeInput("agents", "other", data, NotADataset,
                                   NoConfig, NoDataset)
       \/ \E config \in CanonicalConfigs :
             unit = NormalizeInput("config", "dump", dump_agent_config(config),
                                   NotADataset, config, NoDataset)
       \/ \E message \in MessageObjects :
             unit = NormalizeInput("messages", "list", Scalar, MessageList(<<message>>),
                                   NoConfig, NoDataset)
       \/ \E tool_calls \in ToolCallLists :
             unit = NormalizeInput("messages", "tool_calls", Scalar,
                                   MessageList(<<AssistantMessage(tool_calls)>>),
                                   NoConfig, NoDataset)
       \/ \E data \in OtherMessagesData :
             unit = NormalizeInput("messages", "other", Scalar, data,
                                   NoConfig, NoDataset)
       \/ \E dataset \in CanonicalDatasets :
             unit = NormalizeInput("dataset", "dump", Scalar,
                                   dump_message_dataset(dataset), NoConfig, dataset)

\* ValidationUtils.validate_agents_config(agents_config_data)
ValidationUtils_validate_agents_config ==
    /\ unit.op \in {"agents", "config"}
    /\ unit.done = "no"
    /\ unit' = [unit EXCEPT !.done = "validate_agents_config",
                            !.agents_config = validate_agents_config(unit.agents_data)]
    /\ UNCHANGED <<sessionVars, now, cache, call>>

\* ValidationUtils.validate_messages_dataset(messages_dataset_data)
ValidationUtils_validate_messages_dataset ==
    /\ unit.op \in {"messages", "dataset"}
    /\ unit.done = "no"
    /\ unit' = [unit EXCEPT !.done = "validate_messages_dataset",
                            !.messages_dataset = validate_messages_dataset(unit.messages_data)]
    /\ UNCHANGED <<sessionVars, now, cache, call>>

NextNormalize ==
    \/ ValidationUtils_validate_agents_config
    \/ ValidationUtils_validate_messages_dataset

SpecNormalize == InitNormalize /\ [][NextNormalize]_vars

\* The agent object an input in one of the three formats was made of.
AgentOf(u) ==
    CASE u.form = "standard" -> u.agents_data.agents[1]
      [] u.form = "list" -> u.agents_data.items[1]
      [] OTHER -> u.agents_data

SystemPromptKeys == <<"system_prompt", "prompt", "system">>

C22_RenormalizationIsIdentity ==
    /\ (unit.form = "dump" /\ unit.done = "validate_agents_config")
       => unit.agents_config = Returned(unit.config)
    /\ (unit.form = "dump" /\ unit.done = "validate_messages_dataset")
       => unit.messages_dataset = ReturnedDataset(unit.dataset)

\* C23: a message with a `role` and no `type` is normalized, with type human
\* for user, ai for assistant and ai, system for system, tool for tool and
\* function, and ai for any other role; a message whose resolved type is
\* one of human, ai, tool, system is accepted and any other type fails.
MessageOf(u) == u.messages_data.items[1]

C23_RoleMappingIsTotal ==
    (unit.done = "validate_messages_dataset" /\ unit.form = "list")
    => LET message == MessageOf(unit)
           result == unit.messages_dataset
           resolved == IF "type" \in message.keys THEN message.type
                       ELSE result.dataset.messages[1].type
       IN  /\ ("role" \in message.keys /\ "type" \notin message.keys)
              => /\ result.error = None
                 /\ message.role = "user" => result.dataset.messages[1].type = "human"
                 /\ message.role \in {"assistant", "ai"}
                       => result.dataset.messages[1].type = "ai"
                 /\ message.role = "system" => result.dataset.messages[1].type = "system"
                 /\ message.role \in {"tool", "function"}
                       => result.dataset.messages[1].type = "tool"
                 /\ message.role = "planner" => result.dataset.messages[1].type = "ai"
           /\ ("role" \in message.keys \/ "type" \in message.keys)
              => (result.error = None <=> resolved \in {"human", "ai", "tool", "system"})

\* C24: agent-config normalization never returns an AgentConfig with zero
\* agents: whenever the agent list is empty after normalization, as for
\* {"agents": []} and [], it fails with a validation error.
C24_EmptyAgentListFails ==
    unit.done = "validate_agents_config"
    => /\ unit.agents_config.error = None
             => unit.agents_config.config.agents /= <<>>
       /\ unit.agents_data \in {Standard(<<>>), List(<<>>)}
             => unit.agents_config.error = "ValidationError"

\* C25: the named tool calls of one message are normalized in input order,
\* and one without an explicit id gets the id call_{n}, n being the number
\* of tool calls normalized before it: N named tool calls without ids get
\* call_0 .. call_{N-1}.  A tool call without a name is dropped, does not
\* fail the message and does not consume an index.
Named(tool_call) ==
    /\ tool_call.json = "dict"
    /\ \/ "name" \in tool_call.keys
       \/ "function" \in tool_call.keys /\ "name" \in tool_call.function.keys

ExplicitId(tool_call) ==
    IF "id" \in tool_call.keys THEN tool_call.id
    ELSE IF "function" \in tool_call.keys /\ "id" \in tool_call.function.keys
    THEN tool_call.function.id
    ELSE None

CallIds == <<"call_0", "call_1", "call_2", "call_3", "call_4">>

MaxMessages == 7   \* messages of a dataset in the conversation-flow check

\* `range(max(0, i-5), i)`
lookback == 5

(* models/agent.py, models/message.py: the accessors *)
get_agent_names(agents_config) ==
    [i \in 1..Len(agents_config.agents) |-> agents_config.agents[i].agent_name]

\* `if message.name and message.type == MessageType.AI`
get_unique_agents(messages_dataset) ==
    {messages_dataset.messages[i].name : i \in
        {j \in 1..Len(messages_dataset.messages) :
            /\ Truthy(messages_dataset.messages[j].name)
            /\ messages_dataset.messages[j].type = "ai"}}

get_unique_tools(messages_dataset) ==
    UNION {{messages_dataset.messages[i].tool_calls[k].name :
               k \in 1..Len(messages_dataset.messages[i].tool_calls)} :
           i \in 1..Len(messages_dataset.messages)}

config_tools_of(agents_config) ==
    UNION {Range(agents_config.agents[i].tools) : i \in 1..Len(agents_config.agents)}

(* The report *)
Warning(kind, names, id, missing_id) ==
    [kind |-> kind, names |-> names, id |-> id, tool_call_id |-> missing_id]

RecommendAgents == "Add missing agents to configuration or correct agent names in messages"
RecommendTools == "Add missing tool definitions to agent configurations"

NoResults == [warnings |-> <<>>, recommendations |-> <<>>, errors |-> <<>>]

\* `set(agents_config.get_agent_names())`
config_agents(agents_config) == Range(get_agent_names(agents_config))

check_missing_agents(config_agent_names, message_agent_names, results) ==
    LET missing_in_config == message_agent_names \ config_agent_names
        missing_in_messages == config_agent_names \ message_agent_names
        first == IF missing_in_config /= {}
                 THEN [results EXCEPT
                          !.warnings = Append(@, Warning("Agents found in messages but not in config",
                                                         missing_in_config, None, None)),
                          !.recommendations = Append(@, RecommendAgents)]
                 ELSE results
    IN  IF missing_in_messages /= {}
        THEN [first EXCEPT
                 !.warnings = Append(@, Warning("Agents in config but not found in messages",
                                                missing_in_messages, None, None))]
        ELSE first

check_missing_tools(config_tools, message_tools, results) ==
    LET undefined_tools == message_tools \ config_tools
    IN  IF undefined_tools /= {}
        THEN [results EXCEPT
                 !.warnings = Append(@, Warning("Tools used in messages but not defined in config",
                                                undefined_tools, None, None)),
                 !.recommendations = Append(@, RecommendTools)]
        ELSE results

\* The positions the inner loop visits for the message at position i (1-based).
look_back_without_limit(i) == 1..(i - 1)

look_back(i) == {j \in 1..(i - 1) : j >= i - lookback}

tool_call_found(messages, i) ==
    \E j \in look_back(i) :
        /\ messages[j].type = "ai"
        /\ \E k \in 1..Len(messages[j].tool_calls) :
              messages[j].tool_calls[k].id = messages[i].tool_call_id

RECURSIVE flow_issues_from(_, _)
flow_issues_from(messages, i) ==
    IF i > Len(messages) THEN <<>>
    ELSE IF /\ messages[i].type = "tool"
            /\ Truthy(messages[i].tool_call_id)
            /\ ~tool_call_found(messages, i)
         THEN <<Warning("Tool message references non-existent tool call ID", {},
                        messages[i].id, messages[i].tool_call_id)>>
              \o flow_issues_from(messages, i + 1)
         ELSE flow_issues_from(messages, i + 1)

check_conversation_flow(messages_dataset) == flow_issues_from(messages_dataset.messages, 1)

\* `if validation_results["errors"]:`
blocked_by_warnings(validation_results) == validation_results.warnings /= <<>>

blocked(validation_results) == validation_results.errors /= <<>>

NoValidation == [error |-> None, results |-> NoResults]

validate_session_files(agents_config, messages_dataset) ==
    LET agents_checked ==
            check_missing_agents(config_agents(agents_config),
                                 get_unique_agents(messages_dataset), NoResults)
        tools_checked ==
            check_missing_tools(config_tools_of(agents_config),
                                get_unique_tools(messages_dataset), agents_checked)
        validation_results ==
            [tools_checked EXCEPT
                !.warnings = @ \o check_conversation_flow(messages_dataset)]
    IN  IF blocked(validation_results)
        THEN [error |-> "DataConsistencyError", results |-> validation_results]
        ELSE [error |-> None, results |-> validation_results]

(* The inputs *)
Msg(type, name, id, tool_calls, answered_id) ==
    [content |-> "c", type |-> type, name |-> name, id |-> id, example |-> FALSE,
     tool_calls |-> tool_calls, invalid_tool_calls |-> "[]", usage_metadata |-> None,
     tool_call_id |-> answered_id, artifact |-> None, status |-> None]

Call(name, id) == [name |-> name, args |-> NoArgs, id |-> id, type |-> "tool_call"]

\* The messages of the agent and tool checks.
NamedMessages ==
    {Msg("ai", name, "m", <<>>, None) : name \in {None, "", "a1", "a2"}}
    \cup {Msg("human", "a1", "m", <<>>, None),
          Msg("ai", "a1", "m", <<Call("t1", "x1")>>, None),
          Msg("ai", None, "m", <<Call("t2", "x1")>>, None),
          Msg("tool", "t2", "m", <<>>, "x1")}

ConfiguredAgents ==
    [agent_id : {"a1", "a2"}, agent_name : {"a1", "a2", "n1"}, version : {"1.0"},
     system_prompt : {"p1"}, tools : {<<>>, <<"t1">>}, metadata : {None}]

\* The messages of the conversation-flow check: ai messages with the tool
\* call x1 and with the tool call x2, a human message with the tool call
\* x1, and tool messages for x1, for the empty id and without an id.
FlowMessages ==
    {Msg("ai", None, "m", <<Call("t1", "x1")>>, None),
     Msg("ai", None, "m", <<Call("t1", "x2")>>, None),
     Msg("human", None, "m", <<Call("t1", "x1")>>, None),
     Msg("tool", None, "m", <<>>, "x1")}

ShortFlowMessages ==
    FlowMessages \cup {Msg("tool", None, "m", <<>>, ""), Msg("tool", None, "m", <<>>, None)}

\* The messages with their positions as ids.
Numbered(messages) ==
    [i \in 1..Len(messages) |-> [messages[i] EXCEPT !.id = "m" \o ToString(i)]]

ConfigOf(agents) == [agents |-> agents, version |-> "1.0", metadata |-> None]
DatasetOf(messages) == [messages |-> Numbered(messages), metadata |-> None]

ValidateInput(agents_config, messages_dataset) ==
    [op |-> "validate", done |-> "no", agents_config |-> agents_config,
     messages_dataset |-> messages_dataset, validation |-> NoValidation]

InitValidate ==
    /\ store = NoSession
    /\ files = NoFiles
    /\ req = [r \in Reqs |-> IdleReq]
    /\ task = [t \in Tasks |-> IdleTask]
    /\ returned = NothingReturned
    /\ now = 0
    /\ cache = NoCache
    /\ call = NoCalls
    /\ \/ \E agents \in SeqsUpTo(ConfiguredAgents, MaxAgents),
             messages \in SeqsUpTo(NamedMessages, MaxItems) \ {<<>>} :
             unit = ValidateInput(ConfigOf(agents), DatasetOf(messages))
       \/ \E messages \in SeqsUpTo(FlowMessages, MaxMessages) \ {<<>>} :
             unit = ValidateInput(ConfigOf(<<>>), DatasetOf(messages))
       \/ \E messages \in SeqsUpTo(ShortFlowMessages, MaxItems) \ {<<>>} :
             unit = ValidateInput(ConfigOf(<<>>), DatasetOf(messages))

\* ValidationUtils.validate_session_files(agents_config, messages_dataset)
ValidationUtils_validate_session_files ==
    /\ unit.op = "validate"
    /\ unit.done = "no"
    /\ unit' = [unit EXCEPT
                   !.done = "validate_session_files",
                   !.validation = validate_session_files(unit.agents_config,
                                                         unit.messages_dataset)]
    /\ UNCHANGED <<sessionVars, now, cache, call>>

NextValidate == ValidationUtils_validate_session_files

SpecValidate == InitValidate /\ [][NextValidate]_vars

\* The warnings of a kind in the report of the step just taken.
WarningsOf(kind) ==
    {w \in Range(unit.validation.results.warnings) : w.kind = kind}

\* C26: the warning "agents found in messages but not in config" and its
\* add/correct recommendation are emitted exactly when some ai-typed message
\* carries a name that is not the agent_id of any configured agent.
C26_MissingAgentsAreKnownByAgentId ==
    unit.done = "validate_session_files"
    => LET messages == unit.messages_dataset.messages
           unknown == \E i \in 1..Len(messages) :
                         /\ messages[i].type = "ai"
                         /\ Truthy(messages[i].name)
                         /\ \A k \in 1..Len(unit.agents_config.agents) :
                               unit.agents_config.agents[k].agent_id /= messages[i].name
       IN  /\ WarningsOf("Agents found in messages but not in config") /= {} <=> unknown
           /\ RecommendAgents \in Range(unit.validation.results.recommendations) <=> unknown

C28_WarningsNeverBlock ==
    unit.done = "validate_session_files"
    => /\ unit.validation.error = "DataConsistencyError"
             <=> unit.validation.results.errors /= <<>>
       /\ unit.validation.error = None
       /\ unit.validation.results.errors = <<>>

\* All four checks have fired and the report is returned.
C28_Witness ==
    /\ unit.done = "validate_session_files"
    /\ WarningsOf("Agents found in messages but not in config") /= {}
    /\ WarningsOf("Agents in config but not found in messages") /= {}
    /\ WarningsOf("Tools used in messages but not defined in config") /= {}
    /\ WarningsOf("Tool message references non-existent tool call ID") /= {}
    /\ Len(unit.validation.results.recommendations) = 2
    /\ unit.validation.error = None
    /\ unit.validation.results.errors = <<>>

====
